---- MODULE Spec2Model ----
(***************************************************************************)
(* Model of tunnel9's tunnel engine: the TunnelManager registry and its    *)
(* aggregate queues, and per Tunnel the accept loop (connect), the         *)
(* health/metrics task, the forwarders (forward) with their two copy tasks *)
(* and the status/log fan-in tasks.  One step of a task is one run of code *)
(* between two blocking points (channel send, lock, network call, sleep).  *)
(***************************************************************************)
EXTENDS Integers, Sequences, FiniteSets, TLC

\* ---- bounds of the model ------------------------------------------------
MaxConns == 1         \* forwarders of a tunnel instance running at a time
MaxDials == 2         \* SSH clients dialed over a run
MaxEmit == 4          \* status events a tunnel enqueues over a run
MaxTime == 3          \* clock values, in seconds, read by updateMetrics
MaxBytes == 3         \* bytes counted in each direction
MaxLen == 4           \* length of the strings given to NewEndpointFromString
LogCap == 1           \* capacity of a tunnel's log queue (50 in the code)
AggLogCap == 1        \* capacity of the manager's log queue (100 in the code)
AggStatusCap == 1     \* capacity of the manager's status queue (5 in the code)

\* ---- program constants --------------------------------------------------
StatusCap == 2        \* make(chan TunnelStatus, 2)
maxRetries == 3       \* forward: maxRetries := 3
baseDelay == 1        \* forward: baseDelay := time.Second (in seconds)

Ids == {"a"}          \* identifiers of the tunnels the caller creates
NoIds == {"b"}        \* an identifier that is never created
AllIds == Ids \cup NoIds
Cfgs == {1, 2}        \* a configuration is its local port
Insts == {1, 2}       \* Tunnel objects that CreateTunnel can allocate
Conns == 1..MaxConns  \* forwarder slots of a tunnel instance
Cls == 1..MaxDials    \* SSH client objects
Dirs == {"upload", "download"}

NoEv == [id |-> 0, state |-> "none", msg |-> "none", n |-> 0]

VARIABLES
  registry,      \* tm.tunnels: id -> Tunnel instance, 0 when absent
  nInst,         \* Tunnel objects allocated so far
  queued,        \* the queues modelled with their contents: "status", "log"
  ui,            \* the caller: [pc, id, t], and got: the queues of the manager from
                 \* which its listen command holds a message for Update
  Config,        \* t.Config (its local port)
  Listener,      \* t.Listener: 0 = nil, 1 = set
  bound,         \* the listener bound by StartTunnel(t) is open
  StatusSet,     \* t.StatusChan # nil
  LogSet,        \* t.LogChan # nil
  stopChan,      \* t.stopChan: "nil", "open", "closed"
  Client,        \* t.Client: 0 = nil, else the client object
  clientMu,      \* t.clientMu: 0 = free, k = held by forwarder k
  cclose,        \* per client object: number of Close() calls
  nClient,       \* client objects dialed so far
  statusQ,       \* buffer of the tunnel's StatusChan
  emitN,         \* status events emitted by the tunnel's tasks
  statusClosed,  \* the tunnel's StatusChan is closed
  logQ,          \* messages in the tunnel's LogChan
  logClosed,     \* the tunnel's LogChan is closed
  aggStatus,     \* buffer of tm.StatusChan
  aggLog,        \* messages in tm.LogChan
  faninpc,       \* status fan-in task: "none", "recv", "send", "done"
  fhold,         \* the event the status fan-in is sending
  logfan,        \* log fan-in task: "none", "recv", "send", "done"
  acc,           \* connect (accept loop): "none","init","emit","loop","lnil","done",
                 \* and inside its last logf "stop_send", "panic", "blocked"
  hl,            \* health task: "none","wait","rd","sess","fail","done"
  hcl,           \* health task's local variable client
  latency,       \* t.Metrics.Latency: 0 initial, -1 unknown, 1 measured
  fpc,           \* forwarder pc
  fcl,           \* forwarder's local variable client
  ffirst,        \* forwarder's isFirstConnect
  fatt,          \* forwarder's attempt
  fdel,          \* delays the forwarder has slept, in order
  ffin,          \* forwarder's finished
  fres,          \* results of the forwarder's remote dials, in order
  femit,         \* states of the status events the forwarder has emitted
  lclose,        \* Close() calls on the forwarder's local socket
  rclose,        \* Close() calls on the forwarder's remote socket
  ropen,         \* the forwarder's remote socket was opened
  cpc,           \* copy tasks: "none", "top", "blocked", "exited"
  maxInst,       \* Tunnel objects the run may allocate
  aggClosed,     \* the aggregate queues Cleanup has closed: "status", "log"
  lastd,         \* newest Tunnel object with an event put on tm.StatusChan
  ui2,           \* a second caller of StopTunnel: [pc, id, t]
  inCleanup,     \* Cleanup is running or has returned
  Metrics,       \* t.Metrics of one tunnel: the fields updateMetrics uses
  now,           \* updateMetrics: now, the clock read by the last call (-1: no call)
  elapsed,       \* updateMetrics: elapsed, in seconds, of the last call (-1: no call)
  epIn,          \* the argument of NewEndpointFromString, or the arguments of
                 \* NewEndpoint, or the config of figureOutRemoteVsBastion
  endpoint,      \* the endpoints returned, each [Host, Port, User]; <<>> before the call
  mu,            \* the locks of one tunnel at the grain of Lock/Unlock: [w, r, m] =
                 \* writer of clientMu, readers of clientMu, holder of Metrics.mu
  kpc,           \* at that grain: the pc of the health task and of two forwarders
  kloc,          \* at that grain: the locals [client, attempt] of these tasks, and
                 \* of a copy task n (bytes written) and v (a counter it has read)
  ret            \* the value returned by the last GetMetrics: <<>> before a call

mgrv == <<registry, nInst, queued>>
tunv == <<Config, Listener, bound, StatusSet, LogSet, stopChan>>
cliv == <<Client, clientMu, cclose, nClient>>
stv == <<statusQ, emitN>>
chv == <<statusClosed, logClosed>>
aggv == <<aggStatus, aggLog>>
fanv == <<faninpc, fhold, logfan>>
hlv == <<hl, hcl, latency>>
fwv == <<fpc, fcl, ffirst, fatt, fdel, ffin, fres, femit>>
sockv == <<lclose, rclose, ropen, cpc>>
callv == <<maxInst, aggClosed, lastd, ui2, inCleanup>>
metv == <<Metrics, now, elapsed>>
epv == <<epIn, endpoint>>
lockv == <<mu, kpc, kloc, ret>>
extv == <<callv, metv, epv, lockv>>
vars == <<mgrv, ui, tunv, cliv, stv, logQ, chv, aggv, fanv, acc, hlv, fwv, sockv, extv>>

\* ---- Tunnel.updateStatus, logf, errorf ----------------------------------
Ev(t, state, msg) == [id |-> t, state |-> state, msg |-> msg, n |-> emitN[t] + 1]

\* t.StatusChan <- TunnelStatus{...} when t.StatusChan # nil.  With the queues
\* modelled, the send blocks while the buffer is full; otherwise the send is
\* taken to complete (the fan-in task drains the queue).
updateStatus(t, state, msg) ==
  IF StatusSet[t] /\ "status" \in queued
    THEN /\ Len(statusQ[t]) < StatusCap
         /\ emitN[t] < MaxEmit
         /\ statusQ' = [statusQ EXCEPT ![t] = Append(@, Ev(t, state, msg))]
         /\ emitN' = [emitN EXCEPT ![t] = @ + 1]
    ELSE UNCHANGED stv

\* The status event that updateStatus sends for forwarder k, noted in femit.
emits(t, k, state) ==
  femit' = IF StatusSet[t] THEN [femit EXCEPT ![t][k] = Append(@, state)] ELSE femit

\* t.LogChan <- msg when t.LogChan # nil; the send blocks while the buffer is full.
logf(t) ==
  IF LogSet[t] /\ "log" \in queued
    THEN /\ logQ[t] < LogCap
         /\ logQ' = [logQ EXCEPT ![t] = @ + 1]
    ELSE UNCHANGED logQ

errorf(t) == logf(t) /\ updateStatus(t, "error", "logs")

\* ---- SSH client objects -------------------------------------------------
ClientOpen(c) == c # 0 /\ cclose[c] = 0

\* if t.Client != nil { t.Client.Close(); t.Client = nil }
CloseAndClearClient(t) ==
  /\ Client' = [Client EXCEPT ![t] = 0]
  /\ cclose' = IF Client[t] # 0 THEN [cclose EXCEPT ![Client[t]] = @ + 1] ELSE cclose

\* The state after NewTunnelManager(); q is the set of queues that are modelled
\* with their contents.
Start(q) ==
  /\ registry = [i \in AllIds |-> 0]
  /\ nInst = 0
  /\ queued = q
  /\ ui = [pc |-> "idle", id |-> "a", t |-> 0, got |-> {}]
  /\ Config = [t \in Insts |-> 0]
  /\ Listener = [t \in Insts |-> 0]
  /\ bound = [t \in Insts |-> FALSE]
  /\ StatusSet = [t \in Insts |-> FALSE]
  /\ LogSet = [t \in Insts |-> FALSE]
  /\ stopChan = [t \in Insts |-> "nil"]
  /\ Client = [t \in Insts |-> 0]
  /\ clientMu = [t \in Insts |-> 0]
  /\ cclose = [c \in Cls |-> 0]
  /\ nClient = 0
  /\ statusQ = [t \in Insts |-> <<>>]
  /\ emitN = [t \in Insts |-> 0]
  /\ statusClosed = [t \in Insts |-> FALSE]
  /\ logQ = [t \in Insts |-> 0]
  /\ logClosed = [t \in Insts |-> FALSE]
  /\ aggStatus = <<>>
  /\ aggLog = 0
  /\ faninpc = [t \in Insts |-> "none"]
  /\ fhold = [t \in Insts |-> NoEv]
  /\ logfan = [t \in Insts |-> "none"]
  /\ acc = [t \in Insts |-> "none"]
  /\ hl = [t \in Insts |-> "none"]
  /\ hcl = [t \in Insts |-> 0]
  /\ latency = [t \in Insts |-> 0]
  /\ fpc = [t \in Insts |-> [k \in Conns |-> "none"]]
  /\ fcl = [t \in Insts |-> [k \in Conns |-> 0]]
  /\ ffirst = [t \in Insts |-> [k \in Conns |-> FALSE]]
  /\ fatt = [t \in Insts |-> [k \in Conns |-> 0]]
  /\ fdel = [t \in Insts |-> [k \in Conns |-> <<>>]]
  /\ ffin = [t \in Insts |-> [k \in Conns |-> 0]]
  /\ fres = [t \in Insts |-> [k \in Conns |-> <<>>]]
  /\ femit = [t \in Insts |-> [k \in Conns |-> <<>>]]
  /\ lclose = [t \in Insts |-> [k \in Conns |-> 0]]
  /\ rclose = [t \in Insts |-> [k \in Conns |-> 0]]
  /\ ropen = [t \in Insts |-> [k \in Conns |-> FALSE]]
  /\ cpc = [t \in Insts |-> [k \in Conns |-> [d \in Dirs |-> "none"]]]

\* The manager's callers at the start; n Tunnel objects may be allocated.
Callers(n) ==
  /\ maxInst = n
  /\ aggClosed = {}
  /\ lastd = 1
  /\ ui2 = [pc |-> "idle", id |-> "a", t |-> 0]
  /\ inCleanup = FALSE

\* The zero value of TunnelMetrics, no updateMetrics call yet.
NoMetrics ==
  /\ Metrics = [BytesIn |-> 0, BytesOut |-> 0, LastBytesIn |-> 0, LastBytesOut |-> 0,
                LastUpdate |-> 0, CurrentRateIn |-> <<0, 1>>, CurrentRateOut |-> <<0, 1>>]
  /\ now = -1
  /\ elapsed = -1

\* No call of NewEndpointFromString.
NoEndpoint ==
  /\ epIn = <<>>
  /\ endpoint = <<>>

\* The tasks followed at the grain of their locks, before they run.
Forwarders == {"fwd1", "fwd2"}
NoLocals == [client |-> 0, attempt |-> 0, n |-> 0, v |-> 0]

NoLocks ==
  /\ mu = [w |-> "none", r |-> {}, m |-> "none"]
  /\ kpc = [x \in Forwarders \cup {"health"} |-> IF x = "health" THEN "select" ELSE "none"]
  /\ kloc = [x \in Forwarders \cup {"health"} |-> NoLocals]
  /\ ret = <<>>

Init == Start({}) /\ Callers(1) /\ NoMetrics /\ NoEndpoint /\ NoLocks

\* ---- TunnelManager ------------------------------------------------------
\* The caller is between two manager calls.
Idle == ui.pc \in {"idle", "created"}

\* A CreateTunnel that stores the configuration it is given also when id is
\* registered.
CreateTunnel_replacing(id, cfg) ==
  /\ Idle
  /\ IF registry[id] # 0
       THEN /\ ui' = [ui EXCEPT !.pc = "created", !.id = id, !.t = registry[id]]
            /\ Config' = [Config EXCEPT ![registry[id]] = cfg]
            /\ UNCHANGED <<mgrv, StatusSet, LogSet, Client, faninpc>>
       ELSE /\ nInst + 1 \in Insts
            /\ nInst < maxInst
            /\ LET t == nInst + 1 IN
                 /\ nInst' = t
                 /\ registry' = [registry EXCEPT ![id] = t]
                 /\ Config' = [Config EXCEPT ![t] = cfg]
                 /\ Client' = [Client EXCEPT ![t] = 0]
                 /\ StatusSet' = [StatusSet EXCEPT ![t] = TRUE]
                 /\ LogSet' = [LogSet EXCEPT ![t] = TRUE]
                 /\ faninpc' = [faninpc EXCEPT ![t] = "recv"]
                 /\ ui' = [ui EXCEPT !.pc = "created", !.id = id, !.t = t]
            /\ UNCHANGED queued
  /\ UNCHANGED <<extv, Listener, bound, stopChan, clientMu, cclose, nClient, stv, logQ, chv,
                 aggv, fhold, logfan, acc, hlv, fwv, sockv>>

\* CreateTunnel(id, config): the existing Tunnel when id is registered, else a
\* new Tunnel with its queues and its status fan-in task.  ui.t is the handle
\* returned.
CreateTunnel(id, cfg) ==
  /\ Idle
  /\ IF registry[id] # 0
       THEN /\ ui' = [ui EXCEPT !.pc = "created", !.id = id, !.t = registry[id]]
            /\ UNCHANGED <<mgrv, Config, StatusSet, LogSet, Client, faninpc>>
       ELSE /\ nInst + 1 \in Insts
            /\ nInst < maxInst
            /\ LET t == nInst + 1 IN
                 /\ nInst' = t
                 /\ registry' = [registry EXCEPT ![id] = t]
                 /\ Config' = [Config EXCEPT ![t] = cfg]
                 /\ Client' = [Client EXCEPT ![t] = 0]
                 /\ StatusSet' = [StatusSet EXCEPT ![t] = TRUE]
                 /\ LogSet' = [LogSet EXCEPT ![t] = TRUE]
                 /\ faninpc' = [faninpc EXCEPT ![t] = "recv"]
                 /\ ui' = [ui EXCEPT !.pc = "created", !.id = id, !.t = t]
            /\ UNCHANGED queued
  /\ UNCHANGED <<extv, Listener, bound, stopChan, clientMu, cclose, nClient, stv, logQ, chv,
                 aggv, fhold, logfan, acc, hlv, fwv, sockv>>

\* The port of cfg is held by an open listener of this process.
PortBusy(p) == \E t \in Insts : bound[t] /\ Config[t] = p

\* StartTunnel(tunnel), with the handle CreateTunnel returned, up to its return
\* or its errorf: GetSSHConfig, net.Listen (whose result is assigned to
\* tunnel.Listener also when it is an error), then the log fan-in task and
\* connect are started.
StartTunnel(auth, bind) ==
  /\ ui.pc = "created"
  /\ LET t == ui.t IN
       IF ~auth
         THEN /\ ui' = [ui EXCEPT !.pc = "start_err"]
              /\ UNCHANGED <<Listener, bound, logfan, acc>>
         ELSE IF ~bind \/ PortBusy(Config[t])
           THEN /\ Listener' = [Listener EXCEPT ![t] = 0]
                /\ ui' = [ui EXCEPT !.pc = "start_err"]
                /\ UNCHANGED <<bound, logfan, acc>>
           ELSE /\ Listener' = [Listener EXCEPT ![t] = 1]
                /\ bound' = [bound EXCEPT ![t] = TRUE]
                /\ logfan' = [logfan EXCEPT ![t] = "recv"]
                /\ acc' = [acc EXCEPT ![t] = "init"]
                /\ ui' = [ui EXCEPT !.pc = "idle"]
  /\ UNCHANGED <<extv, mgrv, Config, StatusSet, LogSet, stopChan, cliv, stv, logQ, chv,
                 aggv, faninpc, fhold, hlv, fwv, sockv>>

\* tunnel.errorf(...) and the error return of StartTunnel.
StartTunnelFail ==
  /\ ui.pc = "start_err"
  /\ errorf(ui.t)
  /\ ui' = [ui EXCEPT !.pc = "idle"]
  /\ UNCHANGED <<extv, mgrv, tunv, cliv, chv, aggv, fanv, acc, hlv, fwv, sockv>>

\* A StopTunnel without the lookup's `exists` test: for an unknown id it calls
\* Stop on a nil Tunnel.
StopTunnel_unchecked(id) ==
  /\ Idle \/ (ui.pc = "cleanup" /\ registry[id] # 0)
  /\ IF registry[id] = 0 \/ stopChan[registry[id]] = "closed"
       THEN /\ ui' = [ui EXCEPT !.pc = "panic", !.id = id, !.t = registry[id]]
            /\ UNCHANGED stopChan
       ELSE /\ ui' = [ui EXCEPT !.pc = "stop_lock", !.id = id, !.t = registry[id]]
            /\ stopChan' = [stopChan EXCEPT ![registry[id]] =
                              IF @ = "nil" THEN "nil" ELSE "closed"]
  /\ UNCHANGED <<extv, mgrv, Config, Listener, bound, StatusSet, LogSet, cliv, stv, logQ, chv,
                 aggv, fanv, acc, hlv, fwv, sockv>>

\* StopTunnel(id), called by the user interface or by the loop of Cleanup over
\* the registered ids: the lookup (an unknown id returns nil at once), and the
\* first half of Tunnel.Stop: if t.stopChan != nil { close(t.stopChan) }, which
\* panics on a channel that is closed already.
StopTunnel(id) ==
  /\ Idle \/ (ui.pc = "cleanup" /\ registry[id] # 0)
  /\ IF registry[id] = 0
       THEN /\ ui' = [ui EXCEPT !.pc = "idle", !.id = id]
            /\ UNCHANGED stopChan
       ELSE IF stopChan[registry[id]] = "closed"
         THEN /\ ui' = [ui EXCEPT !.pc = "panic", !.id = id, !.t = registry[id]]
              /\ UNCHANGED stopChan
         ELSE /\ ui' = [ui EXCEPT !.pc = "stop_lock", !.id = id, !.t = registry[id]]
              /\ stopChan' = [stopChan EXCEPT ![registry[id]] =
                                IF @ = "nil" THEN "nil" ELSE "closed"]
  /\ UNCHANGED <<extv, mgrv, Config, Listener, bound, StatusSet, LogSet, cliv, stv, logQ, chv,
                 aggv, fanv, acc, hlv, fwv, sockv>>

\* Tunnel.Stop, second half: under clientMu, close and clear the client.
Stop ==
  /\ ui.pc = "stop_lock"
  /\ clientMu[ui.t] = 0
  /\ CloseAndClearClient(ui.t)
  /\ ui' = [ui EXCEPT !.pc = "stop_sleep"]
  /\ UNCHANGED <<extv, mgrv, tunv, clientMu, nClient, stv, logQ, chv, aggv, fanv, acc,
                 hlv, fwv, sockv>>

\* StopTunnel after time.Sleep(time.Second / 2): close and clear both queues
\* of the tunnel, delete(tm.tunnels, id), return.
StopTunnelReturn ==
  /\ ui.pc = "stop_sleep"
  /\ logClosed' = [logClosed EXCEPT ![ui.t] = @ \/ LogSet[ui.t]]
  /\ statusClosed' = [statusClosed EXCEPT ![ui.t] = @ \/ StatusSet[ui.t]]
  /\ LogSet' = [LogSet EXCEPT ![ui.t] = FALSE]
  /\ StatusSet' = [StatusSet EXCEPT ![ui.t] = FALSE]
  /\ registry' = [registry EXCEPT ![ui.id] = 0]
  /\ ui' = [ui EXCEPT !.pc = IF inCleanup THEN "cleanup" ELSE "idle"]
  /\ UNCHANGED <<extv, nInst, queued, Config, Listener, bound, stopChan, cliv, stv, logQ, aggv,
                 fanv, acc, hlv, fwv, sockv>>

\* StopTunnel(id) called by a second task while the first caller is at any
\* point of its own call: the manager takes no lock.
StopTunnel2(id) ==
  /\ ui2.pc = "idle"
  /\ registry[id] # 0
  /\ IF stopChan[registry[id]] = "closed"
       THEN /\ ui2' = [pc |-> "panic", id |-> id, t |-> registry[id]]
            /\ UNCHANGED stopChan
       ELSE /\ ui2' = [pc |-> "stop_lock", id |-> id, t |-> registry[id]]
            /\ stopChan' = [stopChan EXCEPT ![registry[id]] =
                              IF @ = "nil" THEN "nil" ELSE "closed"]
  /\ UNCHANGED <<maxInst, aggClosed, lastd, inCleanup, metv, epv, lockv, mgrv, ui, Config, Listener,
                 bound, StatusSet, LogSet, cliv, stv, logQ, chv, aggv, fanv, acc, hlv, fwv,
                 sockv>>

\* Tunnel.Stop, second half, in the second caller.
Stop2 ==
  /\ ui2.pc = "stop_lock"
  /\ clientMu[ui2.t] = 0
  /\ CloseAndClearClient(ui2.t)
  /\ ui2' = [ui2 EXCEPT !.pc = "stop_sleep"]
  /\ UNCHANGED <<maxInst, aggClosed, lastd, inCleanup, metv, epv, lockv, mgrv, ui, tunv, clientMu,
                 nClient, stv, logQ, chv, aggv, fanv, acc, hlv, fwv, sockv>>

\* StopTunnel after its sleep, in the second caller.
StopTunnelReturn2 ==
  /\ ui2.pc = "stop_sleep"
  /\ logClosed' = [logClosed EXCEPT ![ui2.t] = @ \/ LogSet[ui2.t]]
  /\ statusClosed' = [statusClosed EXCEPT ![ui2.t] = @ \/ StatusSet[ui2.t]]
  /\ LogSet' = [LogSet EXCEPT ![ui2.t] = FALSE]
  /\ StatusSet' = [StatusSet EXCEPT ![ui2.t] = FALSE]
  /\ registry' = [registry EXCEPT ![ui2.id] = 0]
  /\ ui2' = [ui2 EXCEPT !.pc = "idle"]
  /\ UNCHANGED <<maxInst, aggClosed, lastd, inCleanup, metv, epv, lockv, nInst, queued, ui, Config,
                 Listener, bound, stopChan, cliv, stv, logQ, aggv, fanv, acc, hlv, fwv, sockv>>

\* Cleanup(), called when the user quits: the loop over tm.tunnels begins.
Cleanup ==
  /\ Idle
  /\ ~inCleanup
  /\ ui' = [ui EXCEPT !.pc = "cleanup", !.t = 0]
  /\ inCleanup' = TRUE
  /\ UNCHANGED <<maxInst, aggClosed, lastd, ui2, metv, epv, lockv, mgrv, tunv, cliv, stv, logQ,
                 chv, aggv, fanv, acc, hlv, fwv, sockv>>

\* A Cleanup that closes the aggregate queues without waiting for its loop.
CleanupClose_early ==
  /\ ui.pc = "cleanup"
  /\ aggClosed' = {"log", "status"}
  /\ ui' = [ui EXCEPT !.pc = "quit"]
  /\ UNCHANGED <<maxInst, lastd, ui2, inCleanup, metv, epv, lockv, mgrv, tunv, cliv, stv, logQ,
                 chv, aggv, fanv, acc, hlv, fwv, sockv>>

\* Cleanup after its loop, when every registered id has been visited: close
\* and clear tm.LogChan and tm.StatusChan, return.
CleanupClose ==
  /\ ui.pc = "cleanup"
  /\ \A id \in AllIds : registry[id] = 0
  /\ aggClosed' = {"log", "status"}
  /\ ui' = [ui EXCEPT !.pc = "quit"]
  /\ UNCHANGED <<maxInst, lastd, ui2, inCleanup, metv, epv, lockv, mgrv, tunv, cliv, stv, logQ,
                 chv, aggv, fanv, acc, hlv, fwv, sockv>>

\* ---- endpoints ------------------------------------------------------------
\* A string is the sequence of its characters; an int is its decimal numeral
\* (what strconv.Itoa prints), so that the 64 bits of int are kept.
Digits == {"0", "1", "2", "3", "4", "5", "6", "7", "8", "9"}

DigitVal(c) == CHOOSE v \in 0..9 : <<"0", "1", "2", "3", "4", "5", "6", "7", "8", "9">>[v + 1] = c

\* math.MaxInt64 and the magnitude of math.MinInt64.
MaxInt64 == <<"9", "2", "2", "3", "3", "7", "2", "0", "3", "6", "8", "5", "4", "7", "7", "5", "8", "0", "7">>
MinInt64 == <<"9", "2", "2", "3", "3", "7", "2", "0", "3", "6", "8", "5", "4", "7", "7", "5", "8", "0", "8">>

\* strings.Index(s, c) + 1: the place of the first c in s, 0 when there is none.
Index(s, c) ==
  IF \E i \in 1..Len(s) : s[i] = c
    THEN CHOOSE i \in 1..Len(s) : s[i] = c /\ \A j \in 1..(i - 1) : s[j] # c
    ELSE 0

\* strings.Split(s, c): the pieces of s between the occurrences of c.
RECURSIVE Split(_, _)
Split(s, c) ==
  LET i == Index(s, c) IN
    IF i = 0 THEN <<s>>
    ELSE <<SubSeq(s, 1, i - 1)>> \o Split(SubSeq(s, i + 1, Len(s)), c)

\* A digit string without its leading zeros.
RECURSIVE Trim(_)
Trim(d) == IF Len(d) > 1 /\ d[1] = "0" THEN Trim(Tail(d)) ELSE d

\* The number of the trimmed digit string a is greater than that of b.
Above(a, b) ==
  \/ Len(a) > Len(b)
  \/ /\ Len(a) = Len(b)
     /\ \E i \in 1..Len(a) :
          /\ \A j \in 1..(i - 1) : a[j] = b[j]
          /\ DigitVal(a[i]) > DigitVal(b[i])

\* The value of strconv.Atoi(s), its error dropped: 0 on a syntax error, the
\* nearest int64 on a range error, else the number, with an optional sign.
Atoi(s) ==
  LET neg == s # <<>> /\ s[1] = "-"
      d == IF s # <<>> /\ s[1] \in {"+", "-"} THEN Tail(s) ELSE s
  IN IF d = <<>> \/ \E i \in 1..Len(d) : d[i] \notin Digits
       THEN <<"0">>
       ELSE LET m == Trim(d) IN
              IF neg
                THEN IF Above(m, MinInt64) THEN <<"-">> \o MinInt64
                     ELSE IF m = <<"0">> THEN m ELSE <<"-">> \o m
                ELSE IF Above(m, MaxInt64) THEN MaxInt64 ELSE m

\* NewEndpointFromString(s) with s = epIn.
NewEndpointFromString ==
  /\ endpoint = <<>>
  /\ LET at == Split(epIn, "@")
         User == IF Len(at) > 1 THEN at[1] ELSE <<>>
         host == IF Len(at) > 1 THEN at[2] ELSE epIn
         colon == Split(host, ":")
         Host == IF Len(colon) > 1 THEN colon[1] ELSE host
         Port == IF Len(colon) > 1 THEN Atoi(colon[2]) ELSE <<"0">>
     IN endpoint' = <<[Host |-> Host, Port |-> Port, User |-> User]>>
  /\ UNCHANGED <<mgrv, ui, tunv, cliv, stv, logQ, chv, aggv, fanv, acc, hlv, fwv, sockv,
                 callv, metv, epIn, lockv>>

\* The strings given to NewEndpointFromString: every string of at most MaxLen
\* of these characters, the strings of the tests, and ports around the ends
\* of int64.
Chars == {"u", "@", ":", "7", "0", "-"}

Inputs ==
  UNION {[1..n -> Chars] : n \in 0..MaxLen}
    \cup {<<"u", "s", "e", "r", "@", "h", "o", "s", "t", "@", "d", "o", "m", "a", "i", "n", ".", "c", "o", "m">>,
          <<"u", "s", "e", "r", "@", "e", "x", "a", "m", "p", "l", "e", ".", "c", "o", "m", ":", "2", "2">>,
          <<"1", "9", "2", ".", "1", "6", "8", ".", "1", ".", "1", "0", "0", ":", "3", "3", "0", "6">>,
          <<"h", ":", "9", "2", "2", "3", "3", "7", "2", "0", "3", "6", "8", "5", "4", "7", "7", "5", "8", "0", "7">>,
          <<"h", ":", "9", "2", "2", "3", "3", "7", "2", "0", "3", "6", "8", "5", "4", "7", "7", "5", "8", "0", "8">>,
          <<"h", ":", "9", "9", "9", "9", "9", "9", "9", "9", "9", "9", "9", "9", "9", "9", "9", "9", "9", "9", "9", "9">>,
          <<"h", ":", "-", "9", "2", "2", "3", "3", "7", "2", "0", "3", "6", "8", "5", "4", "7", "7", "5", "8", "0", "8">>,
          <<"h", ":", "-", "9", "2", "2", "3", "3", "7", "2", "0", "3", "6", "8", "5", "4", "7", "7", "5", "8", "0", "9">>}

\* A NewEndpoint that keeps the port argument also when the host string
\* holds a port.
NewEndpoint_keepport(host, port, fallbackHosts) ==
  LET first == IF host = <<>> /\ Len(fallbackHosts) > 0 THEN fallbackHosts[1] ELSE host
      at == Split(first, "@")
      rest == IF Len(at) > 1 THEN at[2] ELSE first
      colon == Split(rest, ":")
  IN [Host |-> IF Len(colon) > 1 THEN colon[1] ELSE rest,
      Port |-> port,
      User |-> IF Len(at) > 1 THEN at[1] ELSE <<>>]

\* NewEndpoint(host, port, fallbackHosts...): the endpoint returned.
NewEndpoint(host, port, fallbackHosts) ==
  LET first == IF host = <<>> /\ Len(fallbackHosts) > 0 THEN fallbackHosts[1] ELSE host
      at == Split(first, "@")
      rest == IF Len(at) > 1 THEN at[2] ELSE first
      colon == Split(rest, ":")
  IN [Host |-> IF Len(colon) > 1 THEN colon[1] ELSE rest,
      Port |-> IF Len(colon) > 1 THEN Atoi(colon[2]) ELSE port,
      User |-> IF Len(at) > 1 THEN at[1] ELSE <<>>]

\* A call NewEndpoint(host, port, fallbackHosts...) with the arguments of epIn.
CallNewEndpoint ==
  /\ endpoint = <<>>
  /\ endpoint' = <<NewEndpoint(epIn.host, epIn.port, epIn.fallbackHosts)>>
  /\ UNCHANGED <<mgrv, ui, tunv, cliv, stv, logQ, chv, aggv, fanv, acc, hlv, fwv, sockv,
                 callv, metv, epIn, lockv>>

\* The port arguments and the fallback lists given to NewEndpoint: those of
\* the tests, and a fallback that holds a user and a port.
Ports == {<<"0">>, <<"2", "2">>, <<"8", "0", "8", "0">>}

Fallbacks ==
  {<<>>,
   <<<<"l", "o", "c", "a", "l", "h", "o", "s", "t">>>>,
   <<<<"f", "i", "r", "s", "t", ".", "c", "o", "m">>, <<"s", "e", "c", "o", "n", "d", ".", "c", "o", "m">>>>,
   <<<<"u", "@", "f", ":", "7">>>>,
   <<<<>>, <<"x">>>>}

\* A figureOutRemoteVsBastion without the default SSH port.
figureOutRemoteVsBastion_nodefault(config) ==
  LET direct == config.Bastion.Host = <<>>
      sshHost == IF direct THEN config.RemoteHost ELSE config.Bastion.Host
      remoteHost == IF direct THEN <<"l", "o", "c", "a", "l", "h", "o", "s", "t">>
                    ELSE config.RemoteHost
  IN <<NewEndpoint(sshHost, config.Bastion.Port, <<>>),
       NewEndpoint(remoteHost, config.RemotePort, <<>>)>>

\* figureOutRemoteVsBastion(config): <<sshEndpoint, remoteEndpoint>>.
figureOutRemoteVsBastion(config) ==
  LET direct == config.Bastion.Host = <<>>
      sshHost == IF direct THEN config.RemoteHost ELSE config.Bastion.Host
      remoteHost == IF direct THEN <<"l", "o", "c", "a", "l", "h", "o", "s", "t">>
                    ELSE config.RemoteHost
      sshPort == IF config.Bastion.Port = <<"0">> THEN <<"2", "2">> ELSE config.Bastion.Port
  IN <<NewEndpoint(sshHost, sshPort, <<>>),
       NewEndpoint(remoteHost, config.RemotePort, <<>>)>>

\* forward: sshEndpoint, remoteEndpoint := figureOutRemoteVsBastion(t.Config),
\* with the configuration of epIn.
forward_endpoints ==
  /\ endpoint = <<>>
  /\ endpoint' = figureOutRemoteVsBastion(epIn)
  /\ UNCHANGED <<mgrv, ui, tunv, cliv, stv, logQ, chv, aggv, fanv, acc, hlv, fwv, sockv,
                 callv, metv, epIn, lockv>>

\* The host strings and the ports of the configurations: no host, plain
\* hosts, and hosts that hold a user or a port.
Hosts ==
  {<<>>, <<"b">>, <<"d", "b">>, <<"u", "@", "b">>, <<"b", ":", "7">>, <<"u", "@", "b", ":", "7">>,
   <<"b", ":">>}

ConfigPorts == {<<"0">>, <<"2", "2">>, <<"5", "4", "3", "2">>}

\* ---- metrics --------------------------------------------------------------
\* float64(d) / e, kept as the pair of its operands (e = 0: Inf or NaN).
Rate(d, e) == <<d, e>>

\* An updateMetrics that also recomputes when no time has elapsed.
updateMetrics_nonneg(n) ==
  /\ n >= now /\ n >= Metrics.LastUpdate
  /\ now' = n
  /\ elapsed' = n - Metrics.LastUpdate
  /\ IF elapsed' >= 0
       THEN Metrics' = [Metrics EXCEPT
              !.CurrentRateIn = Rate(Metrics.BytesIn - Metrics.LastBytesIn, elapsed'),
              !.CurrentRateOut = Rate(Metrics.BytesOut - Metrics.LastBytesOut, elapsed'),
              !.LastBytesIn = Metrics.BytesIn,
              !.LastBytesOut = Metrics.BytesOut,
              !.LastUpdate = n]
       ELSE UNCHANGED Metrics
  /\ UNCHANGED <<mgrv, ui, tunv, cliv, stv, logQ, chv, aggv, fanv, acc, hlv, fwv, sockv,
                 callv, epv, lockv>>

\* updateMetrics(), under Metrics.mu, with n the value of time.Now(): the clock
\* does not run backwards.
updateMetrics(n) ==
  /\ n >= now /\ n >= Metrics.LastUpdate
  /\ now' = n
  /\ elapsed' = n - Metrics.LastUpdate
  /\ IF elapsed' > 0
       THEN Metrics' = [Metrics EXCEPT
              !.CurrentRateIn = Rate(Metrics.BytesIn - Metrics.LastBytesIn, elapsed'),
              !.CurrentRateOut = Rate(Metrics.BytesOut - Metrics.LastBytesOut, elapsed'),
              !.LastBytesIn = Metrics.BytesIn,
              !.LastBytesOut = Metrics.BytesOut,
              !.LastUpdate = n]
       ELSE UNCHANGED Metrics
  /\ UNCHANGED <<mgrv, ui, tunv, cliv, stv, logQ, chv, aggv, fanv, acc, hlv, fwv, sockv,
                 callv, epv, lockv>>

\* The copy loop's count of n bytes written, under Metrics.mu: "upload" adds
\* to BytesOut, the other direction to BytesIn.
addBytes(direction, n) ==
  /\ IF direction = "upload"
       THEN /\ Metrics.BytesOut + n <= MaxBytes
            /\ Metrics' = [Metrics EXCEPT !.BytesOut = @ + n]
       ELSE /\ Metrics.BytesIn + n <= MaxBytes
            /\ Metrics' = [Metrics EXCEPT !.BytesIn = @ + n]
  /\ UNCHANGED <<mgrv, ui, tunv, cliv, stv, logQ, chv, aggv, fanv, acc, hlv, fwv, sockv,
                 callv, epv, lockv, now, elapsed>>

\* ---- fan-in tasks and the consumer of the aggregate queues --------------
\* A fan-in task that takes the newest event of the queue instead of the oldest.
FanInRecv_newest(t) ==
  /\ faninpc[t] = "recv"
  /\ IF statusQ[t] # <<>>
       THEN /\ fhold' = [fhold EXCEPT ![t] = statusQ[t][Len(statusQ[t])]]
            /\ statusQ' = [statusQ EXCEPT ![t] = SubSeq(@, 1, Len(@) - 1)]
            /\ faninpc' = [faninpc EXCEPT ![t] = "send"]
       ELSE /\ statusClosed[t]
            /\ faninpc' = [faninpc EXCEPT ![t] = "done"]
            /\ UNCHANGED <<fhold, statusQ>>
  /\ UNCHANGED <<extv, mgrv, ui, tunv, cliv, emitN, logQ, chv, aggv, logfan, acc, hlv,
                 fwv, sockv>>

\* for status := range tunnel.StatusChan: receive the oldest event, or end
\* when the queue is closed and empty.
FanInRecv(t) ==
  /\ faninpc[t] = "recv"
  /\ IF statusQ[t] # <<>>
       THEN /\ fhold' = [fhold EXCEPT ![t] = Head(statusQ[t])]
            /\ statusQ' = [statusQ EXCEPT ![t] = Tail(@)]
            /\ faninpc' = [faninpc EXCEPT ![t] = "send"]
       ELSE /\ statusClosed[t]
            /\ faninpc' = [faninpc EXCEPT ![t] = "done"]
            /\ UNCHANGED <<fhold, statusQ>>
  /\ UNCHANGED <<extv, mgrv, ui, tunv, cliv, emitN, logQ, chv, aggv, logfan, acc, hlv,
                 fwv, sockv>>

\* tm.StatusChan <- status
FanInSend(t) ==
  /\ faninpc[t] = "send"
  /\ "status" \notin aggClosed
  /\ Len(aggStatus) < AggStatusCap
  /\ aggStatus' = Append(aggStatus, fhold[t])
  /\ fhold' = [fhold EXCEPT ![t] = NoEv]
  /\ faninpc' = [faninpc EXCEPT ![t] = "recv"]
  /\ lastd' = IF t > lastd THEN t ELSE lastd
  /\ UNCHANGED <<maxInst, aggClosed, ui2, inCleanup, metv, epv, lockv, mgrv, ui, tunv, cliv, stv,
                 logQ, chv, aggLog, logfan, acc, hlv, fwv, sockv>>

\* for msg := range tunnel.LogChan
LogFanInRecv(t) ==
  /\ logfan[t] = "recv"
  /\ IF logQ[t] > 0
       THEN /\ logQ' = [logQ EXCEPT ![t] = @ - 1]
            /\ logfan' = [logfan EXCEPT ![t] = "send"]
       ELSE /\ logClosed[t]
            /\ logfan' = [logfan EXCEPT ![t] = "done"]
            /\ UNCHANGED logQ
  /\ UNCHANGED <<extv, mgrv, ui, tunv, cliv, stv, chv, aggv, faninpc, fhold, acc, hlv,
                 fwv, sockv>>

\* tm.LogChan <- msg
LogFanInSend(t) ==
  /\ logfan[t] = "send"
  /\ aggLog < AggLogCap
  /\ aggLog' = aggLog + 1
  /\ logfan' = [logfan EXCEPT ![t] = "recv"]
  /\ UNCHANGED <<extv, mgrv, ui, tunv, cliv, stv, logQ, chv, aggStatus, faninpc, fhold,
                 acc, hlv, fwv, sockv>>

\* The UI's reader commands: status := <-a.manager.StatusChan
ReadStatus ==
  /\ aggStatus # <<>>
  /\ aggStatus' = Tail(aggStatus)
  /\ UNCHANGED <<extv, mgrv, ui, tunv, cliv, stv, logQ, chv, aggLog, fanv, acc, hlv,
                 fwv, sockv>>

\* msg := <-a.manager.LogChan
ReadLog ==
  /\ aggLog > 0
  /\ aggLog' = aggLog - 1
  /\ UNCHANGED <<extv, mgrv, ui, tunv, cliv, stv, logQ, chv, aggStatus, fanv, acc, hlv,
                 fwv, sockv>>

\* The user interface's listen command on queue q of the manager: it receives
\* one message and returns it to the event loop, where the message waits for
\* Update.
Listen(q) ==
  /\ q \notin ui.got
  /\ IF q = "status"
       THEN aggStatus # <<>> /\ aggStatus' = Tail(aggStatus) /\ UNCHANGED aggLog
       ELSE aggLog > 0 /\ aggLog' = aggLog - 1 /\ UNCHANGED aggStatus
  /\ ui' = [ui EXCEPT !.got = @ \cup {q}]
  /\ UNCHANGED <<extv, mgrv, tunv, cliv, stv, logQ, chv, fanv, acc, hlv, fwv, sockv>>

\* Update on a statusMsg or a logMsg, which the event loop calls between two
\* calls of the manager: it returns the listen command on that queue again.
Update_msg(q) ==
  /\ ui.pc = "idle"
  /\ q \in ui.got
  /\ ui' = [ui EXCEPT !.got = @ \ {q}]
  /\ UNCHANGED <<extv, mgrv, tunv, cliv, stv, logQ, chv, aggv, fanv, acc, hlv, fwv, sockv>>

\* ---- Tunnel.connect: the accept loop ------------------------------------
\* connect up to the start of its health task: logf("Starting tunnel"),
\* t.stopChan = make(chan struct{}), go func() { ... }().
connect_init(t) ==
  /\ acc[t] = "init"
  /\ logf(t)
  /\ stopChan' = [stopChan EXCEPT ![t] = "open"]
  /\ hl' = [hl EXCEPT ![t] = "wait"]
  /\ acc' = [acc EXCEPT ![t] = "emit"]
  /\ UNCHANGED <<extv, mgrv, ui, Config, Listener, bound, StatusSet, LogSet, cliv, stv,
                 chv, aggv, fanv, hcl, latency, fwv, sockv>>

\* t.updateStatus("connecting", "waiting for traffic")
connect_status(t) ==
  /\ acc[t] = "emit"
  /\ updateStatus(t, "connecting", "waiting")
  /\ acc' = [acc EXCEPT ![t] = "loop"]
  /\ UNCHANGED <<extv, mgrv, ui, tunv, cliv, logQ, chv, aggv, fanv, hlv, fwv, sockv>>

\* The loop's select: case <-t.stopChan: logf("Tunnel stopping"); return
connect_stop(t) ==
  /\ acc[t] = "loop"
  /\ stopChan[t] = "closed"
  /\ logf(t)
  /\ acc' = [acc EXCEPT ![t] = "done"]
  /\ UNCHANGED <<extv, mgrv, ui, tunv, cliv, stv, chv, aggv, fanv, hlv, fwv, sockv>>

\* The same statement at the grain of logf: the select finds the stop signal
\* and logf tests t.LogChan != nil.
connect_stop_check(t) ==
  /\ acc[t] = "loop"
  /\ stopChan[t] = "closed"
  /\ acc' = [acc EXCEPT ![t] = IF LogSet[t] THEN "stop_send" ELSE "done"]
  /\ UNCHANGED <<extv, mgrv, ui, tunv, cliv, stv, logQ, chv, aggv, fanv, hlv, fwv, sockv>>

\* t.LogChan <- msg after the test: the send waits for room, and panics on a
\* closed queue.  Once StopTunnel has closed the queue and set the field to
\* nil, the unsynchronised second read of t.LogChan gives the closed queue (a
\* panic) or nil (a send that blocks for ever).
connect_stop_send(t) ==
  /\ acc[t] = "stop_send"
  /\ IF logClosed[t]
       THEN /\ \E out \in {"panic", "blocked"} : acc' = [acc EXCEPT ![t] = out]
            /\ UNCHANGED logQ
       ELSE /\ logQ[t] < LogCap
            /\ logQ' = [logQ EXCEPT ![t] = @ + 1]
            /\ acc' = [acc EXCEPT ![t] = "done"]
  /\ UNCHANGED <<extv, mgrv, ui, tunv, cliv, stv, chv, aggv, fanv, hlv, fwv, sockv>>

\* if t.Listener == nil { t.errorf(...)
connect_nolistener(t) ==
  /\ acc[t] = "loop"
  /\ stopChan[t] # "closed"
  /\ Listener[t] = 0
  /\ errorf(t)
  /\ acc' = [acc EXCEPT ![t] = "lnil"]
  /\ UNCHANGED <<extv, mgrv, ui, tunv, cliv, chv, aggv, fanv, hlv, fwv, sockv>>

\* ... t.updateStatus("error", "cannot accept connections"); return }
connect_nolistener2(t) ==
  /\ acc[t] = "lnil"
  /\ updateStatus(t, "error", "accept")
  /\ acc' = [acc EXCEPT ![t] = "done"]
  /\ UNCHANGED <<extv, mgrv, ui, tunv, cliv, logQ, chv, aggv, fanv, hlv, fwv, sockv>>

\* conn, err := t.Listener.Accept() returning a connection: go t.forward(conn),
\* in the first slot that holds no running forwarder.  (An Accept that times
\* out leaves the state as it is.)
Free(t, k) == fpc[t][k] \in {"none", "done"}

connect_accept(t, k) ==
  /\ acc[t] = "loop"
  /\ stopChan[t] # "closed"
  /\ Listener[t] # 0
  /\ Free(t, k)
  /\ \A j \in Conns : j < k => ~Free(t, j)
  /\ fpc' = [fpc EXCEPT ![t][k] = "start"]
  /\ lclose' = [lclose EXCEPT ![t][k] = 0]
  /\ rclose' = [rclose EXCEPT ![t][k] = 0]
  /\ ropen' = [ropen EXCEPT ![t][k] = FALSE]
  /\ cpc' = [cpc EXCEPT ![t][k] = [d \in Dirs |-> "none"]]
  /\ UNCHANGED <<extv, mgrv, ui, tunv, cliv, stv, logQ, chv, aggv, fanv, acc, hlv,
                 fcl, ffirst, fatt, fdel, ffin, fres, femit>>

\* ---- the health/metrics task of connect ---------------------------------
\* select: case <-t.stopChan: return
health_stop(t) ==
  /\ hl[t] = "wait"
  /\ stopChan[t] = "closed"
  /\ hl' = [hl EXCEPT ![t] = "done"]
  /\ UNCHANGED <<extv, mgrv, ui, tunv, cliv, stv, logQ, chv, aggv, fanv, acc, hcl,
                 latency, fwv, sockv>>

\* case <-ticker.C with t.Client != nil (read without the lock): updateMetrics.
\* (A tick with t.Client == nil continues and leaves the state as it is.)
health_tick(t) ==
  /\ hl[t] = "wait"
  /\ Client[t] # 0
  /\ hl' = [hl EXCEPT ![t] = "rd"]
  /\ UNCHANGED <<extv, mgrv, ui, tunv, cliv, stv, logQ, chv, aggv, fanv, acc, hcl,
                 latency, fwv, sockv>>

\* clientMu.RLock(); client := t.Client; RUnlock(); a nil client sets
\* Latency = -1 and continues.
health_read(t) ==
  /\ hl[t] = "rd"
  /\ clientMu[t] = 0
  /\ IF Client[t] = 0
       THEN /\ latency' = [latency EXCEPT ![t] = -1]
            /\ hl' = [hl EXCEPT ![t] = "wait"]
            /\ UNCHANGED hcl
       ELSE /\ hcl' = [hcl EXCEPT ![t] = Client[t]]
            /\ hl' = [hl EXCEPT ![t] = "sess"]
            /\ UNCHANGED latency
  /\ UNCHANGED <<extv, mgrv, ui, tunv, cliv, stv, logQ, chv, aggv, fanv, acc, fwv, sockv>>

\* session, err := client.NewSession(): it can succeed only on an open client.
health_session(t, ok) ==
  /\ hl[t] = "sess"
  /\ ok => ClientOpen(hcl[t])
  /\ latency' = [latency EXCEPT ![t] = IF ok THEN 1 ELSE -1]
  /\ hl' = [hl EXCEPT ![t] = IF ok THEN "wait" ELSE "fail"]
  /\ hcl' = [hcl EXCEPT ![t] = 0]
  /\ UNCHANGED <<extv, mgrv, ui, tunv, cliv, stv, logQ, chv, aggv, fanv, acc, fwv, sockv>>

\* A health task that closes the client after a failed session but keeps the
\* handle in t.Client.
health_fail_keep(t) ==
  /\ hl[t] = "fail"
  /\ logf(t)
  /\ clientMu[t] = 0
  /\ cclose' = IF Client[t] # 0 THEN [cclose EXCEPT ![Client[t]] = @ + 1] ELSE cclose
  /\ hl' = [hl EXCEPT ![t] = "wait"]
  /\ UNCHANGED <<extv, mgrv, ui, tunv, Client, clientMu, nClient, stv, chv, aggv, fanv, acc,
                 hcl, latency, fwv, sockv>>

\* after a failed session: logf, then under clientMu close and clear t.Client.
health_fail(t) ==
  /\ hl[t] = "fail"
  /\ logf(t)
  /\ clientMu[t] = 0
  /\ CloseAndClearClient(t)
  /\ hl' = [hl EXCEPT ![t] = "wait"]
  /\ UNCHANGED <<extv, mgrv, ui, tunv, clientMu, nClient, stv, chv, aggv, fanv, acc,
                 hcl, latency, fwv, sockv>>

\* ---- Tunnel.forward ------------------------------------------------------
\* The local variables of a forwarder that has returned are gone.
forward_locals(t, k) ==
  /\ fcl' = [fcl EXCEPT ![t][k] = 0]
  /\ ffirst' = [ffirst EXCEPT ![t][k] = FALSE]
  /\ fatt' = [fatt EXCEPT ![t][k] = 0]
  /\ fdel' = [fdel EXCEPT ![t][k] = <<>>]
  /\ ffin' = [ffin EXCEPT ![t][k] = 0]
  /\ fres' = [fres EXCEPT ![t][k] = <<>>]
  /\ femit' = [femit EXCEPT ![t][k] = <<>>]

\* return before the remote socket exists: the deferred localConnection.Close().
forward_return(t, k) ==
  /\ fpc' = [fpc EXCEPT ![t][k] = "done"]
  /\ lclose' = [lclose EXCEPT ![t][k] = @ + 1]
  /\ forward_locals(t, k)

\* select { case <-t.stopChan: logf; return; default: }
forward_start(t, k) ==
  /\ fpc[t][k] = "start"
  /\ IF stopChan[t] = "closed"
       THEN logf(t) /\ forward_return(t, k)
       ELSE /\ fpc' = [fpc EXCEPT ![t][k] = "chk"]
            /\ UNCHANGED <<logQ, lclose, fcl, ffirst, fatt, fdel, ffin, fres, femit>>
  /\ UNCHANGED <<extv, mgrv, ui, tunv, cliv, stv, chv, aggv, fanv, acc, hlv, rclose, ropen, cpc>>

\* clientMu.Lock(); needsHealthCheck := t.Client != nil; clientMu.Unlock()
forward_check(t, k) ==
  /\ fpc[t][k] = "chk"
  /\ clientMu[t] = 0
  /\ fpc' = [fpc EXCEPT ![t][k] = IF Client[t] # 0 THEN "hc" ELSE "lock"]
  /\ UNCHANGED <<extv, mgrv, ui, tunv, cliv, stv, logQ, chv, aggv, fanv, acc, hlv,
                 fcl, ffirst, fatt, fdel, ffin, fres, femit, sockv>>

\* t.isSSHClientHealthy(): reads t.Client under RLock and opens a session on it,
\* which can succeed only on an open client.
forward_health(t, k, healthy) ==
  /\ fpc[t][k] = "hc"
  /\ clientMu[t] = 0
  /\ healthy => ClientOpen(Client[t])
  /\ fpc' = [fpc EXCEPT ![t][k] = IF healthy THEN "lock" ELSE "unh"]
  /\ UNCHANGED <<extv, mgrv, ui, tunv, cliv, stv, logQ, chv, aggv, fanv, acc, hlv,
                 fcl, ffirst, fatt, fdel, ffin, fres, femit, sockv>>

\* the unhealthy branch: logf, then under clientMu close and clear t.Client.
forward_unhealthy(t, k) ==
  /\ fpc[t][k] = "unh"
  /\ logf(t)
  /\ clientMu[t] = 0
  /\ CloseAndClearClient(t)
  /\ fpc' = [fpc EXCEPT ![t][k] = "lock"]
  /\ UNCHANGED <<extv, mgrv, ui, tunv, clientMu, nClient, stv, chv, aggv, fanv, acc, hlv,
                 fcl, ffirst, fatt, fdel, ffin, fres, femit, sockv>>

\* clientMu.Lock(); if t.Client == nil { isFirstConnect = true ... (the lock is
\* kept) } else { client := t.Client; clientMu.Unlock() }
forward_lock(t, k) ==
  /\ fpc[t][k] = "lock"
  /\ clientMu[t] = 0
  /\ IF Client[t] = 0
       THEN /\ clientMu' = [clientMu EXCEPT ![t] = k]
            /\ ffirst' = [ffirst EXCEPT ![t][k] = TRUE]
            /\ fpc' = [fpc EXCEPT ![t][k] = "dial_emit"]
            /\ UNCHANGED fcl
       ELSE /\ fcl' = [fcl EXCEPT ![t][k] = Client[t]]
            /\ fpc' = [fpc EXCEPT ![t][k] = "rloop"]
            /\ UNCHANGED <<clientMu, ffirst>>
  /\ UNCHANGED <<extv, mgrv, ui, tunv, Client, cclose, nClient, stv, logQ, chv, aggv,
                 fanv, acc, hlv, fatt, fdel, ffin, fres, femit, sockv>>

\* logf("connecting to SSH server (1/2)"); updateStatus("connecting", ...)
forward_connecting(t, k) ==
  /\ fpc[t][k] = "dial_emit"
  /\ logf(t)
  /\ updateStatus(t, "connecting", "server")
  /\ emits(t, k, "connecting")
  /\ fpc' = [fpc EXCEPT ![t][k] = "sshdial"]
  /\ UNCHANGED <<extv, mgrv, ui, tunv, cliv, chv, aggv, fanv, acc, hlv,
                 fcl, ffirst, fatt, fdel, ffin, fres, sockv>>

\* client, err := ssh.Dial(...) under clientMu; on success t.Client = client,
\* client := t.Client, clientMu.Unlock().
forward_sshdial(t, k, ok) ==
  /\ fpc[t][k] = "sshdial"
  /\ IF ok
       THEN /\ nClient < MaxDials
            /\ nClient' = nClient + 1
            /\ Client' = [Client EXCEPT ![t] = nClient + 1]
            /\ fcl' = [fcl EXCEPT ![t][k] = nClient + 1]
            /\ clientMu' = [clientMu EXCEPT ![t] = 0]
            /\ fpc' = [fpc EXCEPT ![t][k] = "act1"]
       ELSE /\ fpc' = [fpc EXCEPT ![t][k] = "sshfail"]
            /\ UNCHANGED <<nClient, Client, fcl, clientMu>>
  /\ UNCHANGED <<extv, mgrv, ui, tunv, cclose, stv, logQ, chv, aggv, fanv, acc, hlv,
                 ffirst, fatt, fdel, ffin, fres, femit, sockv>>

\* t.errorf("SSH connection failed: ...")
forward_sshfail(t, k) ==
  /\ fpc[t][k] = "sshfail"
  /\ errorf(t)
  /\ emits(t, k, "error")
  /\ fpc' = [fpc EXCEPT ![t][k] = "sshfail2"]
  /\ UNCHANGED <<extv, mgrv, ui, tunv, cliv, chv, aggv, fanv, acc, hlv,
                 fcl, ffirst, fatt, fdel, ffin, fres, sockv>>

\* The error return of the SSH dial without clientMu.Unlock().
forward_sshfail2_locked(t, k) ==
  /\ fpc[t][k] = "sshfail2"
  /\ updateStatus(t, "error", "ssh")
  /\ forward_return(t, k)
  /\ UNCHANGED <<extv, mgrv, ui, tunv, cliv, logQ, chv, aggv, fanv,
                 acc, hlv, rclose, ropen, cpc>>

\* t.updateStatus("error", "SSH connection failed: ..."); clientMu.Unlock(); return
forward_sshfail2(t, k) ==
  /\ fpc[t][k] = "sshfail2"
  /\ updateStatus(t, "error", "ssh")
  /\ clientMu' = [clientMu EXCEPT ![t] = 0]
  /\ forward_return(t, k)
  /\ UNCHANGED <<extv, mgrv, ui, tunv, Client, cclose, nClient, logQ, chv, aggv, fanv,
                 acc, hlv, rclose, ropen, cpc>>

\* if isFirstConnect { logf("connecting to remote server (2/2)");
\*   updateStatus("active", "establishing remote connection") }
forward_establishing(t, k) ==
  /\ fpc[t][k] = "act1"
  /\ logf(t)
  /\ updateStatus(t, "active", "establishing")
  /\ emits(t, k, "active")
  /\ fpc' = [fpc EXCEPT ![t][k] = "rloop"]
  /\ UNCHANGED <<extv, mgrv, ui, tunv, cliv, chv, aggv, fanv, acc, hlv,
                 fcl, ffirst, fatt, fdel, ffin, fres, sockv>>

\* An abort of the retry loop that reports the stop as an error status.
forward_abort_reported(t, k) ==
  /\ fpc[t][k] = "rloop"
  /\ stopChan[t] = "closed"
  /\ errorf(t)
  /\ forward_return(t, k)
  /\ UNCHANGED <<extv, mgrv, ui, tunv, cliv, chv, aggv, fanv, acc, hlv, rclose, ropen, cpc>>

\* One round of the retry loop with the stop signal raised: logf; return.
forward_abort(t, k) ==
  /\ fpc[t][k] = "rloop"
  /\ stopChan[t] = "closed"
  /\ logf(t)
  /\ forward_return(t, k)
  /\ UNCHANGED <<extv, mgrv, ui, tunv, cliv, stv, chv, aggv, fanv, acc, hlv, rclose, ropen, cpc>>

\* A retry loop that gives up only after the last attempt, whatever the error.
forward_dial_retryall(t, k, res) ==
  /\ fpc[t][k] = "rloop"
  /\ stopChan[t] # "closed"
  /\ fres' = [fres EXCEPT ![t][k] = Append(@, res)]
  /\ IF res = "ok"
       THEN /\ ClientOpen(fcl[t][k])
            /\ ropen' = [ropen EXCEPT ![t][k] = TRUE]
            /\ fpc' = [fpc EXCEPT ![t][k] = "estd"]
            /\ UNCHANGED logQ
       ELSE /\ logf(t)
            /\ fpc' = [fpc EXCEPT ![t][k] =
                         IF fatt[t][k] = maxRetries - 1 THEN "rfail" ELSE "backoff"]
            /\ UNCHANGED ropen
  /\ UNCHANGED <<extv, mgrv, ui, tunv, cliv, stv, chv, aggv, fanv, acc, hlv,
                 fcl, ffirst, fatt, fdel, ffin, femit, lclose, rclose, cpc>>

\* One round of the retry loop: client.Dial("tcp", remote) returns a connection
\* (res = "ok", only through an open client), a connection-class error
\* (res = "conn") or another error (res = "other"); after an error logf, and the
\* choice between giving up and the backoff.
forward_dial(t, k, res) ==
  /\ fpc[t][k] = "rloop"
  /\ stopChan[t] # "closed"
  /\ fres' = [fres EXCEPT ![t][k] = Append(@, res)]
  /\ IF res = "ok"
       THEN /\ ClientOpen(fcl[t][k])
            /\ ropen' = [ropen EXCEPT ![t][k] = TRUE]
            /\ fpc' = [fpc EXCEPT ![t][k] = "estd"]
            /\ UNCHANGED logQ
       ELSE /\ logf(t)
            /\ fpc' = [fpc EXCEPT ![t][k] =
                         IF fatt[t][k] = maxRetries - 1 \/ res = "conn"
                           THEN "rfail" ELSE "backoff"]
            /\ UNCHANGED ropen
  /\ UNCHANGED <<extv, mgrv, ui, tunv, cliv, stv, chv, aggv, fanv, acc, hlv,
                 fcl, ffirst, fatt, fdel, ffin, femit, lclose, rclose, cpc>>

\* A backoff whose delay does not grow with the attempt.
forward_backoff_flat(t, k) ==
  /\ fpc[t][k] = "backoff"
  /\ logf(t)
  /\ fdel' = [fdel EXCEPT ![t][k] = Append(@, baseDelay)]
  /\ fatt' = [fatt EXCEPT ![t][k] = @ + 1]
  /\ fpc' = [fpc EXCEPT ![t][k] = "rloop"]
  /\ UNCHANGED <<extv, mgrv, ui, tunv, cliv, stv, chv, aggv, fanv, acc, hlv,
                 fcl, ffirst, ffin, fres, femit, sockv>>

\* delay := time.Duration(attempt+1) * baseDelay; logf; time.Sleep(delay); attempt++
forward_backoff(t, k) ==
  /\ fpc[t][k] = "backoff"
  /\ logf(t)
  /\ fdel' = [fdel EXCEPT ![t][k] = Append(@, (fatt[t][k] + 1) * baseDelay)]
  /\ fatt' = [fatt EXCEPT ![t][k] = @ + 1]
  /\ fpc' = [fpc EXCEPT ![t][k] = "rloop"]
  /\ UNCHANGED <<extv, mgrv, ui, tunv, cliv, stv, chv, aggv, fanv, acc, hlv,
                 fcl, ffirst, ffin, fres, femit, sockv>>

\* t.errorf("connection failed to remote target after %d attempts")
forward_rfail(t, k) ==
  /\ fpc[t][k] = "rfail"
  /\ errorf(t)
  /\ emits(t, k, "error")
  /\ fpc' = [fpc EXCEPT ![t][k] = "rfail2"]
  /\ UNCHANGED <<extv, mgrv, ui, tunv, cliv, chv, aggv, fanv, acc, hlv,
                 fcl, ffirst, fatt, fdel, ffin, fres, sockv>>

\* t.updateStatus("error", "remote connection failed: ...")
forward_rfail2(t, k) ==
  /\ fpc[t][k] = "rfail2"
  /\ updateStatus(t, "error", "remote")
  /\ emits(t, k, "error")
  /\ fpc' = [fpc EXCEPT ![t][k] = "rfail3"]
  /\ UNCHANGED <<extv, mgrv, ui, tunv, cliv, logQ, chv, aggv, fanv, acc, hlv,
                 fcl, ffirst, fatt, fdel, ffin, fres, sockv>>

\* under clientMu close and clear t.Client; return
forward_rfail3(t, k) ==
  /\ fpc[t][k] = "rfail3"
  /\ clientMu[t] = 0
  /\ CloseAndClearClient(t)
  /\ forward_return(t, k)
  /\ UNCHANGED <<extv, mgrv, ui, tunv, clientMu, nClient, stv, logQ, chv, aggv, fanv, acc, hlv, rclose, ropen, cpc>>

\* defer remoteConnection.Close(); if isFirstConnect { updateStatus("active",
\* "tunnel established") }; the two copy tasks are started.
forward_established(t, k) ==
  /\ fpc[t][k] = "estd"
  /\ IF ffirst[t][k]
       THEN updateStatus(t, "active", "established") /\ emits(t, k, "active")
       ELSE UNCHANGED <<stv, femit>>
  /\ cpc' = [cpc EXCEPT ![t][k] = [d \in Dirs |-> "top"]]
  /\ fpc' = [fpc EXCEPT ![t][k] = "wait"]
  /\ UNCHANGED <<extv, mgrv, ui, tunv, cliv, logQ, chv, aggv, fanv, acc, hlv,
                 fcl, ffirst, fatt, fdel, ffin, fres, lclose, rclose, ropen>>

Exited(t, k) == Cardinality({d \in Dirs : cpc[t][k][d] = "exited"})

\* for finished < 2 { select { case <-done: finished++
forward_done(t, k) ==
  /\ fpc[t][k] = "wait"
  /\ ffin[t][k] < 2
  /\ Exited(t, k) > ffin[t][k]
  /\ ffin' = [ffin EXCEPT ![t][k] = @ + 1]
  /\ UNCHANGED <<extv, mgrv, ui, tunv, cliv, stv, logQ, chv, aggv, fanv, acc, hlv,
                 fpc, fcl, ffirst, fatt, fdel, fres, femit, sockv>>

\* A wait loop without the stop case: the forwarder leaves it only through done.
forward_stop_unwatched(t, k) ==
  /\ fpc[t][k] = "wait"
  /\ ffin[t][k] < 2
  /\ FALSE
  /\ UNCHANGED vars

\* case <-t.stopChan: remoteConnection.Close(); localConnection.Close(); return,
\* and then the two deferred Close calls.
forward_stop(t, k) ==
  /\ fpc[t][k] = "wait"
  /\ ffin[t][k] < 2
  /\ stopChan[t] = "closed"
  /\ rclose' = [rclose EXCEPT ![t][k] = @ + 2]
  /\ lclose' = [lclose EXCEPT ![t][k] = @ + 2]
  /\ fpc' = [fpc EXCEPT ![t][k] = "done"]
  /\ forward_locals(t, k)
  /\ UNCHANGED <<extv, mgrv, ui, tunv, cliv, stv, logQ, chv, aggv, fanv, acc, hlv, ropen, cpc>>

\* finished == 2: the function ends and the two deferred Close calls run.
forward_finish(t, k) ==
  /\ fpc[t][k] = "wait"
  /\ ffin[t][k] = 2
  /\ rclose' = [rclose EXCEPT ![t][k] = @ + 1]
  /\ lclose' = [lclose EXCEPT ![t][k] = @ + 1]
  /\ fpc' = [fpc EXCEPT ![t][k] = "done"]
  /\ forward_locals(t, k)
  /\ UNCHANGED <<extv, mgrv, ui, tunv, cliv, stv, logQ, chv, aggv, fanv, acc, hlv, ropen, cpc>>

\* ---- copyConn -----------------------------------------------------------
\* top of the loop: select { case <-t.stopChan: return; default: }, then
\* reader.Read(buf) blocks.  A copy task that returns sends on done.
copy_top(t, k, d) ==
  /\ cpc[t][k][d] = "top"
  /\ cpc' = [cpc EXCEPT ![t][k][d] = IF stopChan[t] = "closed" THEN "exited" ELSE "blocked"]
  /\ UNCHANGED <<extv, mgrv, ui, tunv, cliv, stv, logQ, chv, aggv, fanv, acc, hlv, fwv,
                 lclose, rclose, ropen>>

\* Read returns n > 0 bytes and writer.Write succeeds (both sockets are open).
copy_data(t, k, d) ==
  /\ cpc[t][k][d] = "blocked"
  /\ lclose[t][k] = 0 /\ rclose[t][k] = 0
  /\ cpc' = [cpc EXCEPT ![t][k][d] = "top"]
  /\ UNCHANGED <<extv, mgrv, ui, tunv, cliv, stv, logQ, chv, aggv, fanv, acc, hlv, fwv,
                 lclose, rclose, ropen>>

\* Read returns io.EOF (the peer closed its side): break, no log.
copy_eof(t, k, d) ==
  /\ cpc[t][k][d] = "blocked"
  /\ lclose[t][k] = 0 /\ rclose[t][k] = 0
  /\ cpc' = [cpc EXCEPT ![t][k][d] = "exited"]
  /\ UNCHANGED <<extv, mgrv, ui, tunv, cliv, stv, logQ, chv, aggv, fanv, acc, hlv, fwv,
                 lclose, rclose, ropen>>

\* Read returns the error of a socket this process has closed: logf; break.
copy_closed(t, k, d) ==
  /\ cpc[t][k][d] = "blocked"
  /\ lclose[t][k] > 0 \/ rclose[t][k] > 0
  /\ logf(t)
  /\ cpc' = [cpc EXCEPT ![t][k][d] = "exited"]
  /\ UNCHANGED <<extv, mgrv, ui, tunv, cliv, stv, chv, aggv, fanv, acc, hlv, fwv,
                 lclose, rclose, ropen>>

\* A copy task that reports an error of the network as an error status.
copy_error_reported(t, k, d) ==
  /\ cpc[t][k][d] = "blocked"
  /\ lclose[t][k] = 0 /\ rclose[t][k] = 0
  /\ errorf(t)
  /\ emits(t, k, "error")
  /\ cpc' = [cpc EXCEPT ![t][k][d] = "exited"]
  /\ UNCHANGED <<extv, mgrv, ui, tunv, cliv, chv, aggv, fanv, acc, hlv,
                 fpc, fcl, ffirst, fatt, fdel, ffin, fres, lclose, rclose, ropen>>

\* Read or Write returns an error of the network: logf; break.
copy_error(t, k, d) ==
  /\ cpc[t][k][d] = "blocked"
  /\ lclose[t][k] = 0 /\ rclose[t][k] = 0
  /\ logf(t)
  /\ cpc' = [cpc EXCEPT ![t][k][d] = "exited"]
  /\ UNCHANGED <<extv, mgrv, ui, tunv, cliv, stv, chv, aggv, fanv, acc, hlv, fwv,
                 lclose, rclose, ropen>>

\* ---- the tasks of one tunnel at the grain of their locks ------------------
\* Here the pc of a task names the statement it executes next, and taking a
\* lock, each statement under it and releasing it are steps of their own.
\* The Tunnel object whose tasks are followed: the first one created.
Tk == 1

\* The variables that no step at this grain changes, and those that a step on
\* a lock leaves alone.
lk_rest ==
  <<callv, metv, epv, mgrv, Config, Listener, bound, StatusSet, LogSet, clientMu, stv, logQ,
    chv, aggv, fanv, acc, hcl, fwv, sockv>>
lk_data == <<lk_rest, stopChan, hl, cliv, latency, kloc, ret>>

\* The locks task x holds.
Holds(x) ==
  (IF mu.w = x \/ x \in mu.r THEN {"clientMu"} ELSE {}) \cup
  (IF mu.m = x THEN {"Metrics.mu"} ELSE {})

\* Task x, the caller "ui" or one of the tasks of Tunnel object Tk, is at pc
\* and goes to next.
At(x, pc, next) ==
  IF x = "ui"
    THEN ui.pc = pc /\ ui' = [ui EXCEPT !.pc = next] /\ UNCHANGED kpc
    ELSE kpc[x] = pc /\ kpc' = [kpc EXCEPT ![x] = next] /\ UNCHANGED ui

\* t.clientMu.Lock()
lk_Lock(x, pc, next) ==
  /\ At(x, pc, next)
  /\ mu.w = "none" /\ mu.r = {}
  /\ mu' = [mu EXCEPT !.w = x]
  /\ UNCHANGED lk_data

\* t.clientMu.RLock()
lk_RLock(x, pc, next) ==
  /\ At(x, pc, next)
  /\ mu.w = "none"
  /\ mu' = [mu EXCEPT !.r = @ \cup {x}]
  /\ UNCHANGED lk_data

\* t.clientMu.Unlock() or RUnlock()
lk_Unlock(x, pc, next) ==
  /\ At(x, pc, next)
  /\ mu' = [mu EXCEPT !.w = IF @ = x THEN "none" ELSE @, !.r = @ \ {x}]
  /\ UNCHANGED lk_data

\* A metrics lock that is not taken.
lk_MLock_free(x, pc, next) ==
  /\ At(x, pc, next)
  /\ UNCHANGED <<lk_data, mu>>

\* t.Metrics.mu.Lock()
lk_MLock(x, pc, next) ==
  /\ At(x, pc, next)
  /\ mu.m = "none"
  /\ mu' = [mu EXCEPT !.m = x]
  /\ UNCHANGED lk_data

\* t.Metrics.mu.Unlock()
lk_MUnlock(x, pc, next) ==
  /\ At(x, pc, next)
  /\ mu' = [mu EXCEPT !.m = IF @ = x THEN "none" ELSE @]
  /\ UNCHANGED lk_data

\* A statement that changes none of the variables: a test, a call whose
\* effect is not followed here (session.Close(), the body of updateMetrics,
\* the count of the copy loop, logf).
lk_call(x, pc, next) ==
  /\ At(x, pc, next)
  /\ UNCHANGED <<lk_data, mu>>

\* client := t.Client
lk_read(x, pc, next) ==
  /\ At(x, pc, next)
  /\ kloc' = [kloc EXCEPT ![x].client = Client[Tk]]
  /\ UNCHANGED <<lk_rest, stopChan, hl, cliv, latency, mu, ret>>

\* if t.Client != nil { t.Client.Close(); t.Client = nil }; the local variable
\* client of the task is not used after it.
lk_close(x, pc, next) ==
  /\ At(x, pc, next)
  /\ CloseAndClearClient(Tk)
  /\ kloc' = IF x = "ui" THEN kloc ELSE [kloc EXCEPT ![x].client = 0]
  /\ UNCHANGED <<lk_rest, stopChan, hl, clientMu, nClient, latency, mu, ret>>

\* session, err := client.NewSession(), on the client read before: it can
\* succeed only on an open client.  After a success the local variable client
\* is not used again.
lk_session(x, pc, next, ok) ==
  /\ At(x, pc, next)
  /\ ok => ClientOpen(kloc[x].client)
  /\ kloc' = [kloc EXCEPT ![x].client = IF ok THEN 0 ELSE @]
  /\ UNCHANGED <<lk_rest, stopChan, hl, cliv, latency, mu, ret>>

\* t.Metrics.Latency = d
lk_latency(x, pc, next, d) ==
  /\ At(x, pc, next)
  /\ latency' = [latency EXCEPT ![Tk] = d]
  /\ UNCHANGED <<lk_rest, stopChan, hl, cliv, mu, kloc, ret>>

\* -- the health task of connect --
\* select: case <-t.stopChan: return
lk_health_stop ==
  /\ hl[Tk] = "wait" /\ kpc["health"] = "select"
  /\ stopChan[Tk] = "closed"
  /\ hl' = [hl EXCEPT ![Tk] = "done"]
  /\ UNCHANGED <<lk_rest, ui, stopChan, cliv, latency, mu, kpc, kloc, ret>>

\* A health task that keeps Metrics.mu while it replaces the client.
lk_health_err_unlock_late == lk_call("health", "err_unlock", "fail")

\* err != nil: t.Metrics.mu.Unlock(); t.logf(...)
lk_health_err_unlock == lk_MUnlock("health", "err_unlock", "fail")

\* The steps of the health task: the select, then the statements of the
\* case <-ticker.C in their order.
lk_health ==
  \/ lk_health_stop
  \/ hl[Tk] = "wait" /\ lk_call("health", "select", "look")
  \/ lk_call("health", "look", IF Client[Tk] = 0 THEN "select" ELSE "update")
  \/ lk_MLock("health", "update", "update_body")
  \/ lk_call("health", "update_body", "update_unlock")
  \/ lk_MUnlock("health", "update_unlock", "rlock")
  \/ lk_RLock("health", "rlock", "read")
  \/ lk_read("health", "read", "runlock")
  \/ lk_Unlock("health", "runlock", IF kloc["health"].client = 0 THEN "nil" ELSE "session")
  \/ lk_MLock("health", "nil", "nil_set")
  \/ lk_latency("health", "nil_set", "unlock", -1)
  \/ \E ok \in BOOLEAN : lk_session("health", "session", IF ok THEN "ok" ELSE "err", ok)
  \/ lk_MLock("health", "err", "err_set")
  \/ lk_latency("health", "err_set", "err_unlock", -1)
  \/ lk_health_err_unlock
  \/ lk_Lock("health", "fail", "fail_close")
  \/ lk_close("health", "fail_close", "fail_unlock")
  \/ lk_Unlock("health", "fail_unlock", "select")
  \/ lk_MLock("health", "ok", "latency")
  \/ lk_latency("health", "latency", "close", 1)
  \/ lk_call("health", "close", "unlock")
  \/ lk_MUnlock("health", "unlock", "select")

\* -- forward --
\* go t.forward(conn, sshconfig), for a connection the accept loop accepted.
lk_accept(f) ==
  /\ acc[Tk] = "loop"
  /\ stopChan[Tk] # "closed"
  /\ Listener[Tk] # 0
  /\ f = "fwd2" => kpc["fwd1"] # "none"
  /\ lk_call(f, "none", "start")

\* A forwarder that goes on to test t.Client and to dial without the lock.
lk_forward_lock_skipped(f) == lk_call(f, "lock", "look")

\* var isFirstConnect bool = false; t.clientMu.Lock()
lk_forward_lock(f) == lk_Lock(f, "lock", "look")

\* logf, updateStatus("connecting"); client, err := ssh.Dial(...)
lk_forward_sshdial(f, ok) ==
  /\ At(f, "dial", IF ok THEN "store" ELSE "dial_err")
  /\ IF ok
       THEN /\ nClient < MaxDials
            /\ nClient' = nClient + 1
            /\ kloc' = [kloc EXCEPT ![f].client = nClient + 1]
       ELSE UNCHANGED <<nClient, kloc>>
  /\ UNCHANGED <<lk_rest, stopChan, hl, Client, cclose, latency, mu, ret>>

\* t.Client = client
lk_forward_store(f) ==
  /\ At(f, "store", "unlock")
  /\ Client' = [Client EXCEPT ![Tk] = kloc[f].client]
  /\ UNCHANGED <<lk_rest, stopChan, hl, cclose, nClient, latency, mu, kloc, ret>>

\* the retry loop with the stop signal raised: return
lk_forward_abort(f) ==
  /\ At(f, "rloop", "done")
  /\ stopChan[Tk] = "closed"
  /\ kloc' = [kloc EXCEPT ![f] = NoLocals]
  /\ UNCHANGED <<lk_rest, stopChan, hl, cliv, latency, mu, ret>>

\* remoteConnection, err = client.Dial("tcp", remote): a connection (only
\* through an open client), a connection-class error or another error; then
\* the choice between giving up and the backoff (attempt++ after the sleep).
lk_forward_dial(f, res) ==
  /\ stopChan[Tk] # "closed"
  /\ IF res = "ok"
       THEN /\ ClientOpen(kloc[f].client)
            /\ At(f, "rloop", "copy")
            /\ kloc' = [kloc EXCEPT ![f] = NoLocals]
       ELSE IF kloc[f].attempt = maxRetries - 1 \/ res = "conn"
         THEN /\ At(f, "rloop", "rfail")
              /\ kloc' = [kloc EXCEPT ![f].attempt = 0]
         ELSE /\ At(f, "rloop", "rloop")
              /\ kloc' = [kloc EXCEPT ![f].attempt = @ + 1]
  /\ UNCHANGED <<lk_rest, stopChan, hl, cliv, latency, mu, ret>>

\* The steps of forwarder f: the statements of forward in their order, with
\* those of isSSHClientHealthy ("healthy") and of the copy loop ("copy").
lk_forward(f) ==
  \/ lk_accept(f)
  \/ lk_call(f, "start", IF stopChan[Tk] = "closed" THEN "done" ELSE "check")
  \/ lk_Lock(f, "check", "check_read")
  \/ lk_call(f, "check_read", IF Client[Tk] # 0 THEN "needs" ELSE "needsnot")
  \/ lk_Unlock(f, "needs", "healthy")
  \/ lk_Unlock(f, "needsnot", "lock")
  \/ lk_RLock(f, "healthy", "healthy_read")
  \/ lk_read(f, "healthy_read", "healthy_runlock")
  \/ lk_Unlock(f, "healthy_runlock",
               IF kloc[f].client = 0 THEN "unhealthy" ELSE "healthy_session")
  \/ \E ok \in BOOLEAN :
       lk_session(f, "healthy_session", IF ok THEN "healthy_close" ELSE "unhealthy", ok)
  \/ lk_call(f, "healthy_close", "lock")
  \/ lk_Lock(f, "unhealthy", "unhealthy_close")
  \/ lk_close(f, "unhealthy_close", "unhealthy_unlock")
  \/ lk_Unlock(f, "unhealthy_unlock", "lock")
  \/ lk_forward_lock(f)
  \/ lk_read(f, "look", IF Client[Tk] = 0 THEN "dial" ELSE "unlock")
  \/ \E ok \in BOOLEAN : lk_forward_sshdial(f, ok)
  \/ lk_forward_store(f)
  \/ lk_close(f, "dial_err", "dial_err_unlock")
  \/ lk_Unlock(f, "dial_err_unlock", "done")
  \/ lk_Unlock(f, "unlock", "rloop")
  \/ lk_forward_abort(f)
  \/ \E res \in {"ok", "conn", "other"} : lk_forward_dial(f, res)
  \/ lk_Lock(f, "rfail", "rfail_close")
  \/ lk_close(f, "rfail_close", "rfail_unlock")
  \/ lk_Unlock(f, "rfail_unlock", "done")
  \/ lk_MLock(f, "copy", "count")
  \/ lk_call(f, "count", "count_unlock")
  \/ lk_MUnlock(f, "count_unlock", "copy")
  \/ lk_call(f, "copy", "done")

\* -- TunnelManager.GetMetrics, called by the user interface --
\* formatBytes(bytes) for the rate d / e: one decimal (in tenths) of the rate
\* divided by the largest power of 1024 not above it, and the unit.
RECURSIVE Scale(_, _, _, _)
Scale(d, e, div, exp) ==
  IF d >= 1024 * 1024 * div * e THEN Scale(d, e, div * 1024, exp + 1) ELSE <<div, exp>>

formatBytes(bytes) ==
  LET d == bytes[1]
      e == bytes[2]
  IN IF d < 1024 * e
       THEN <<(20 * d + e) \div (2 * e), "B/s">>
       ELSE LET sc == Scale(d, e, 1024, 0)
            IN <<(20 * d + sc[1] * e) \div (2 * sc[1] * e),
                 <<"KB/s", "MB/s", "GB/s", "TB/s", "PB/s", "EB/s">>[sc[2] + 1]>>

\* formatLatency(d): "n/a" for d <= 0, else the milliseconds (the unit of a
\* measured latency here).
formatLatency(d) == IF d <= 0 THEN <<"n/a">> ELSE <<d, "ms">>

\* fmt.Sprintf("^%s v%s [%s]", ...) of the rates out and in and the latency
\* of Tunnel object t (the arrows up and down written ^ and v): the pieces of
\* the string in their order.
GetMetrics_Sprintf(t) ==
  <<"^">> \o formatBytes(Metrics.CurrentRateOut) \o <<"v">> \o formatBytes(Metrics.CurrentRateIn)
    \o <<"[">> \o formatLatency(latency[t]) \o <<"]">>

\* GetMetrics(id): the lookup; an unknown id returns "--".
GetMetrics(id) ==
  /\ ui.pc = "idle"
  /\ IF registry[id] = 0
       THEN /\ ret' = <<"--">>
            /\ ui' = [ui EXCEPT !.id = id]
       ELSE /\ ui' = [ui EXCEPT !.pc = "metrics_lock", !.id = id, !.t = registry[id]]
            /\ UNCHANGED ret
  /\ UNCHANGED <<lk_rest, stopChan, hl, cliv, latency, mu, kpc, kloc>>

\* A GetMetrics that resets the latency it has reported.
GetMetrics_format_reset ==
  /\ ui.pc = "metrics_format"
  /\ ret' = GetMetrics_Sprintf(ui.t)
  /\ latency' = [latency EXCEPT ![ui.t] = 0]
  /\ ui' = [ui EXCEPT !.pc = "metrics_unlock"]
  /\ UNCHANGED <<lk_rest, stopChan, hl, cliv, mu, kpc, kloc>>

\* return fmt.Sprintf(...) of the two rates and the latency, under the lock
GetMetrics_format ==
  /\ ui.pc = "metrics_format"
  /\ ret' = GetMetrics_Sprintf(ui.t)
  /\ ui' = [ui EXCEPT !.pc = "metrics_unlock"]
  /\ UNCHANGED <<lk_rest, stopChan, hl, cliv, latency, mu, kpc, kloc>>

\* -- copyConn --
\* The bytes of direction dir that copy tasks have written and not yet counted.
Pending(dir) ==
  LET P(x) == IF kpc[x] \in {dir \o "_lock", dir \o "_load", dir \o "_store"}
                THEN kloc[x].n ELSE 0
  IN P("fwd1") + P("fwd2")

\* The loop of copy task x, one of the copy tasks of two connections of the
\* tunnel: Read returns n > 0 bytes and Write succeeds or fails (break); after
\* a success, under Metrics.mu, the counter of the direction ("out" for
\* upload, "in" for download) is read and written back n higher.
copyConn(x) ==
  \/ \E dir \in {"out", "in"}, n \in 1..2, ok \in BOOLEAN :
       /\ At(x, "none", IF ok THEN dir \o "_lock" ELSE "done")
       /\ (IF dir = "out" THEN Metrics.BytesOut ELSE Metrics.BytesIn) + Pending(dir) + n <= MaxBytes
       /\ kloc' = [kloc EXCEPT ![x].n = IF ok THEN n ELSE 0]
       /\ UNCHANGED <<lk_rest, stopChan, hl, cliv, latency, mu, ret>>
  \/ lk_MLock(x, "out_lock", "out_load")
  \/ lk_MLock(x, "in_lock", "in_load")
  \/ \E dir \in {"out", "in"} :
       /\ At(x, dir \o "_load", dir \o "_store")
       /\ kloc' = [kloc EXCEPT ![x].v = IF dir = "out" THEN Metrics.BytesOut ELSE Metrics.BytesIn]
       /\ UNCHANGED <<lk_rest, stopChan, hl, cliv, latency, mu, ret>>
  \/ /\ At(x, "out_store", "unlock")
     /\ Metrics' = [Metrics EXCEPT !.BytesOut = kloc[x].v + kloc[x].n]
     /\ kloc' = [kloc EXCEPT ![x] = NoLocals]
     /\ UNCHANGED <<callv, now, elapsed, epv, mgrv, Config, Listener, bound, StatusSet, LogSet,
                    clientMu, stv, logQ, chv, aggv, fanv, acc, hcl, fwv, sockv,
                    stopChan, hl, cliv, latency, mu, ret>>
  \/ /\ At(x, "in_store", "unlock")
     /\ Metrics' = [Metrics EXCEPT !.BytesIn = kloc[x].v + kloc[x].n]
     /\ kloc' = [kloc EXCEPT ![x] = NoLocals]
     /\ UNCHANGED <<callv, now, elapsed, epv, mgrv, Config, Listener, bound, StatusSet, LogSet,
                    clientMu, stv, logQ, chv, aggv, fanv, acc, hcl, fwv, sockv,
                    stopChan, hl, cliv, latency, mu, ret>>
  \/ lk_MUnlock(x, "unlock", "none")
  \/ lk_call(x, "done", "none")

\* -- the critical sections on the metrics, each as one step --
\* The health task's t.Metrics.Latency = -1 or = time.Since(start), from
\* its Lock to its Unlock.
locked_latency(d) ==
  /\ acc[Tk] # "none"
  /\ mu.m = "none"
  /\ latency' = [latency EXCEPT ![Tk] = d]
  /\ UNCHANGED <<lk_rest, ui, stopChan, hl, cliv, lockv>>

\* ---- the specification --------------------------------------------------
\* The steps of the manager calls.
Manager ==
  \/ \E id \in Ids, cfg \in Cfgs : CreateTunnel(id, cfg)
  \/ \E auth \in BOOLEAN, bind \in BOOLEAN : StartTunnel(auth, bind)
  \/ StartTunnelFail
  \/ \E id \in Ids : StopTunnel(id)
  \/ Stop
  \/ StopTunnelReturn

\* The steps of the accept loop and the health task of tunnel t.
Connect(t) ==
  \/ connect_init(t) \/ connect_status(t) \/ connect_stop(t)
  \/ connect_nolistener(t) \/ connect_nolistener2(t)
  \/ \E k \in Conns : connect_accept(t, k)
  \/ health_stop(t) \/ health_tick(t) \/ health_read(t) \/ health_fail(t)
  \/ \E ok \in BOOLEAN : health_session(t, ok)

\* The steps of forwarder k of tunnel t up to its copy tasks.
Forward(t, k) ==
  \/ forward_start(t, k) \/ forward_check(t, k) \/ forward_unhealthy(t, k)
  \/ \E healthy \in BOOLEAN : forward_health(t, k, healthy)
  \/ forward_lock(t, k) \/ forward_connecting(t, k)
  \/ \E ok \in BOOLEAN : forward_sshdial(t, k, ok)
  \/ forward_sshfail(t, k) \/ forward_sshfail2(t, k)
  \/ forward_establishing(t, k) \/ forward_abort(t, k)
  \/ \E res \in {"ok", "conn", "other"} : forward_dial(t, k, res)
  \/ forward_backoff(t, k)
  \/ forward_rfail(t, k) \/ forward_rfail2(t, k) \/ forward_rfail3(t, k)
  \/ forward_established(t, k)

\* The steps of forwarder k once it copies, and of its copy tasks.
Copy(t, k) ==
  \/ forward_done(t, k) \/ forward_stop(t, k) \/ forward_finish(t, k)
  \/ \E d \in Dirs :
       \/ copy_top(t, k, d) \/ copy_data(t, k, d) \/ copy_eof(t, k, d)
       \/ copy_closed(t, k, d) \/ copy_error(t, k, d)

\* The steps of the status fan-in tasks and of the reader of tm.StatusChan.
StatusQueues ==
  \/ ReadStatus
  \/ \E t \in Insts : FanInRecv(t) \/ FanInSend(t)

\* The steps of the log fan-in tasks and of the reader of tm.LogChan.
LogQueues ==
  \/ ReadLog
  \/ \E t \in Insts : LogFanInRecv(t) \/ LogFanInSend(t)

Next ==
  \/ Manager
  \/ \E t \in Insts : Connect(t) \/ \E k \in Conns : Forward(t, k) \/ Copy(t, k)

Spec == Init /\ [][Next]_vars

\* The scheduler runs every task that can take a step, a lock that is free is
\* taken, and a call to the network returns.  What the peers and the timers do
\* (a connection arrives, data or EOF arrives, the ticker fires) is not assumed.
\* The tasks are those of the one Tunnel object that Init lets Spec allocate.
Fairness ==
  /\ WF_vars(StartTunnelFail \/ Stop \/ StopTunnelReturn)
  /\ \A t \in {1} :
       /\ WF_vars(connect_init(t) \/ connect_status(t) \/ connect_stop(t)
                    \/ connect_nolistener(t) \/ connect_nolistener2(t))
       /\ WF_vars(health_stop(t) \/ health_read(t) \/ health_fail(t)
                    \/ \E ok \in BOOLEAN : health_session(t, ok))
       /\ \A k \in Conns :
            /\ WF_vars(Forward(t, k) \/ forward_done(t, k) \/ forward_stop(t, k)
                         \/ forward_finish(t, k))
            /\ \A d \in Dirs : WF_vars(copy_top(t, k, d) \/ copy_closed(t, k, d))

FairSpec == Spec /\ Fairness

\* The steps of tunnel t to which no connection arrives and whose listener is
\* set: the accept loop up to its select, and the end of the health task.
Quiet(t) ==
  \/ connect_init(t) \/ connect_status(t) \/ connect_stop(t)
  \/ health_stop(t)

\* CreateTunnel for an id that is not registered.
CreateNew(id, cfg) == registry[id] = 0 /\ CreateTunnel(id, cfg)

\* The program with the status queues modelled with their contents.
InitQ == Start({"status"}) /\ Callers(1) /\ NoMetrics /\ NoEndpoint /\ NoLocks

NextQ == Next \/ StatusQueues

SpecQ == InitQ /\ [][NextQ]_vars

\* The manager and the accept loops, no connection arriving, with the log
\* queues modelled with their contents.
InitL == Start({"log"}) /\ Callers(1) /\ NoMetrics /\ NoEndpoint /\ NoLocks

NextL ==
  \/ Manager
  \/ \E t \in Insts : Quiet(t) \/ connect_nolistener(t) \/ connect_nolistener2(t)
  \/ LogQueues

SpecL == InitL /\ [][NextL]_vars

\* One tunnel whose SSH server refuses every dial, with the log queues modelled
\* with their contents and drained by the listen command of the user
\* interface, the task that calls StopTunnel.
NextD ==
  \/ \E id \in Ids : CreateNew(id, 1) \/ StopTunnel(id)
  \/ StartTunnel(TRUE, TRUE) \/ Stop \/ StopTunnelReturn
  \/ connect_init(Tk) \/ connect_status(Tk) \/ connect_stop(Tk)
  \/ \E k \in Conns :
       \/ connect_accept(Tk, k)
       \/ forward_start(Tk, k) \/ forward_check(Tk, k) \/ forward_lock(Tk, k)
       \/ forward_connecting(Tk, k) \/ forward_sshdial(Tk, k, FALSE)
       \/ forward_sshfail(Tk, k) \/ forward_sshfail2(Tk, k)
  \/ LogFanInRecv(Tk) \/ LogFanInSend(Tk)
  \/ Listen("log") \/ Update_msg("log")

SpecD == InitL /\ [][NextD]_vars

\* Every task of SpecD that can take a step takes one; that a connection
\* arrives or that the user starts or stops a tunnel is not assumed.
FairnessD ==
  /\ WF_vars(Stop \/ StopTunnelReturn)
  /\ WF_vars(Update_msg("log"))
  /\ WF_vars(Listen("log"))
  /\ WF_vars(LogFanInRecv(Tk) \/ LogFanInSend(Tk))
  /\ WF_vars(connect_init(Tk) \/ connect_status(Tk) \/ connect_stop(Tk))
  /\ \A k \in Conns :
       WF_vars(forward_start(Tk, k) \/ forward_check(Tk, k) \/ forward_lock(Tk, k)
                 \/ forward_connecting(Tk, k) \/ forward_sshdial(Tk, k, FALSE)
                 \/ forward_sshfail(Tk, k) \/ forward_sshfail2(Tk, k))

FairSpecD == SpecD /\ FairnessD

\* SpecL where the caller of the manager, the accept loop and the tasks of the
\* log queues take every step they can take.
FairSpecL ==
  /\ SpecL
  /\ WF_vars(StartTunnelFail \/ Stop \/ StopTunnelReturn)
  /\ WF_vars(LogQueues)
  /\ \A t \in {1} : WF_vars(Quiet(t) \/ connect_nolistener(t) \/ connect_nolistener2(t))

\* SpecL with the last logf of the accept loop at the grain of its test and
\* its send.
NextS ==
  \/ Manager
  \/ \E t \in Insts :
       \/ connect_init(t) \/ connect_status(t) \/ health_stop(t)
       \/ connect_stop_check(t) \/ connect_stop_send(t)
       \/ connect_nolistener(t) \/ connect_nolistener2(t)
  \/ LogQueues

SpecS == InitL /\ [][NextS]_vars

\* The metrics of one tunnel: bytes are counted and updateMetrics is called as
\* time passes.
NextU ==
  \/ \E n \in 1..MaxTime : updateMetrics(n)
  \/ \E direction \in {"upload", "download"}, n \in 1..2 : addBytes(direction, n)

SpecU == Init /\ [][NextU]_vars

\* NewEndpointFromString applied to a string.
InitE ==
  /\ Start({}) /\ Callers(1) /\ NoMetrics /\ NoLocks
  /\ epIn \in Inputs
  /\ endpoint = <<>>

NextE == NewEndpointFromString

SpecE == InitE /\ [][NextE]_vars

\* NewEndpoint applied to a host string, a port and a list of fallbacks.
InitN ==
  /\ Start({}) /\ Callers(1) /\ NoMetrics /\ NoLocks
  /\ epIn \in [host : Inputs, port : Ports, fallbackHosts : Fallbacks]
  /\ endpoint = <<>>

NextN == CallNewEndpoint

SpecN == InitN /\ [][NextN]_vars

\* figureOutRemoteVsBastion applied to a tunnel configuration.
InitB ==
  /\ Start({}) /\ Callers(1) /\ NoMetrics /\ NoLocks
  /\ epIn \in [Bastion : [Host : Hosts, Port : ConfigPorts],
                RemoteHost : Hosts, RemotePort : ConfigPorts]
  /\ endpoint = <<>>

NextB == forward_endpoints

SpecB == InitB /\ [][NextB]_vars

\* The program with the user quitting (Cleanup) and with StopTunnel called for
\* an id that is not registered.
NextM ==
  \/ Next
  \/ \E id \in NoIds : StopTunnel(id)
  \/ Cleanup
  \/ CleanupClose

SpecM == Init /\ [][NextM]_vars

\* tm.StatusChan <- status at or after Cleanup's close(tm.StatusChan): the send
\* panics; a task that reads the field after Cleanup cleared it blocks for
\* ever on the nil channel.
FanInSendClosed(t) ==
  /\ faninpc[t] = "send"
  /\ "status" \in aggClosed
  /\ \E o \in {"panic", "nil"} : faninpc' = [faninpc EXCEPT ![t] = o]
  /\ UNCHANGED <<extv, mgrv, ui, tunv, cliv, stv, logQ, chv, aggv, fhold, logfan, acc, hlv,
                 fwv, sockv>>

\* A tunnel that is stopped and created again under its id, and the user
\* quitting, with the status queues modelled with their contents and no
\* connection arriving.
InitR == Start({"status"}) /\ Callers(2) /\ NoMetrics /\ NoEndpoint /\ NoLocks

NextR ==
  \/ \E id \in Ids, cfg \in Cfgs : CreateNew(id, cfg)
  \/ \E auth, bind \in BOOLEAN : StartTunnel(auth, bind)
  \/ StartTunnelFail
  \/ \E id \in Ids : StopTunnel(id)
  \/ Stop
  \/ StopTunnelReturn
  \/ \E t \in Insts : Quiet(t)
  \/ StatusQueues
  \/ Cleanup
  \/ CleanupClose
  \/ \E t \in Insts : FanInSendClosed(t)

SpecR == InitR /\ [][NextR]_vars

\* The same with a second task that calls StopTunnel.
NextC ==
  \/ NextR
  \/ \E id \in Ids : StopTunnel2(id)
  \/ Stop2
  \/ StopTunnelReturn2

SpecC == InitR /\ [][NextC]_vars

\* One tunnel and its tasks at the grain of their locks: the health task,
\* two forwarders with their copy tasks, and the user interface calling
\* StopTunnel and GetMetrics.
NextK ==
  \/ \E id \in Ids : CreateNew(id, 1)
  \/ StartTunnel(TRUE, TRUE)
  \/ \E id \in Ids : StopTunnel(id)
  \/ lk_Lock("ui", "stop_lock", "stop_close")
  \/ lk_close("ui", "stop_close", "stop_unlock")
  \/ lk_Unlock("ui", "stop_unlock", "stop_sleep")
  \/ StopTunnelReturn
  \/ \E id \in Ids : GetMetrics(id)
  \/ lk_MLock("ui", "metrics_lock", "metrics_format")
  \/ GetMetrics_format
  \/ lk_MUnlock("ui", "metrics_unlock", "idle")
  \/ connect_init(Tk) \/ connect_status(Tk) \/ connect_stop(Tk)
  \/ lk_health
  \/ \E f \in Forwarders : lk_forward(f)

SpecK == Init /\ [][NextK]_vars

\* The copy tasks of two connections count their bytes while the health task
\* calls updateMetrics.
NextA ==
  \/ \E x \in Forwarders : copyConn(x)
  \/ \E n \in 1..MaxTime : mu.m = "none" /\ updateMetrics(n)

SpecA == Init /\ [][NextA]_vars

\* GetMetrics and StopTunnel called while the metrics of a started tunnel
\* change, each critical section of its tasks on the metrics being one step.
NextG ==
  \/ \E id \in Ids : CreateNew(id, 1)
  \/ StartTunnel(TRUE, TRUE)
  \/ \E id \in Ids : StopTunnel(id)
  \/ lk_Lock("ui", "stop_lock", "stop_close")
  \/ lk_close("ui", "stop_close", "stop_unlock")
  \/ lk_Unlock("ui", "stop_unlock", "stop_sleep")
  \/ StopTunnelReturn
  \/ \E id \in AllIds : GetMetrics(id)
  \/ lk_MLock("ui", "metrics_lock", "metrics_format")
  \/ GetMetrics_format
  \/ lk_MUnlock("ui", "metrics_unlock", "idle")
  \/ \E n \in 1..MaxTime : acc[Tk] # "none" /\ mu.m = "none" /\ updateMetrics(n)
  \/ \E direction \in Dirs, n \in 1..2 :
       acc[Tk] # "none" /\ mu.m = "none" /\ addBytes(direction, n)
  \/ \E d \in {-1, 1} : locked_latency(d)

SpecG == Init /\ [][NextG]_vars

\* ---- properties -----------------------------------------------------------
Range(s) == {s[i] : i \in 1..Len(s)}

\* The step on which StopTunnel returns for a tunnel that StartTunnel started.
StopReturns == ui.pc = "stop_sleep" /\ ui'.pc = "idle" /\ acc[ui.t] # "none"

\* C1: when StopTunnel(id) returns for a tunnel that StartTunnel had started,
\* the tunnel's listener is closed, every SSH client of the tunnel is closed and
\* the client handle is absent, and id is no longer in the registry.
C1_StopTunnelReleases ==
  [][StopReturns =>
       /\ ~bound'[ui.t]
       /\ Client'[ui.t] = 0
       /\ \A c \in 1..nClient' : cclose'[c] > 0
       /\ registry'[ui.id] = 0]_vars

\* StopTunnel has returned for a started tunnel.
C1_Witness ==
  /\ ui.pc = "idle" /\ nInst = 1 /\ registry["a"] = 0
  /\ acc[1] # "none" /\ ~StatusSet[1]

\* C2: at the moment StopTunnel(id) returns, the accept loop, the health task,
\* every forwarder and both copy tasks of every forwarder have terminated.
C2_TasksEndedAtReturn ==
  [][StopReturns =>
       /\ acc'[ui.t] = "done"
       /\ hl'[ui.t] \in {"none", "done"}
       /\ \A k \in Conns :
            /\ fpc'[ui.t][k] \in {"none", "done"}
            /\ \A d \in Dirs : cpc'[ui.t][k][d] \in {"none", "exited"}]_vars

\* StopTunnel has returned and a forwarder of the tunnel is still dialing.
C2_Witness ==
  /\ ui.pc = "idle" /\ nInst = 1 /\ registry["a"] = 0
  /\ \E k \in Conns : fpc[1][k] = "sshdial"

\* C3: a StopTunnel call made at any moment after StartTunnel returned, also
\* before the accept loop has taken its first step, leads to the accept loop
\* terminating.
C3_StopEndsAcceptLoop ==
  \A t \in Insts :
    (ui.pc = "stop_lock" /\ ui.t = t /\ acc[t] # "none") ~> (acc[t] = "done")

\* StopTunnel has signalled a tunnel whose accept loop has not taken a step.
C3_Witness ==
  \E t \in Insts : ui.pc = "stop_lock" /\ ui.t = t /\ acc[t] = "init"

\* C4: CreateTunnel(id, cfg) for an id in the registry returns the registered
\* Tunnel and leaves its configuration, client, listener and queues as they
\* are, whatever cfg is, and starts no task.
C4_CreateTunnelIdempotent ==
  [][\A id \in Ids :
       (ui.pc = "idle" /\ registry[id] # 0 /\ ui'.pc = "created" /\ ui'.id = id)
         => /\ ui'.t = registry[id]
            /\ UNCHANGED <<mgrv, tunv, cliv, stv, logQ, chv, aggv, fanv, acc, hlv,
                           fwv, sockv>>]_vars

\* CreateTunnel has returned the handle of a tunnel that is already started.
C4_Witness ==
  /\ ui.pc = "created" /\ registry[ui.id] = ui.t
  /\ acc[ui.t] = "loop" /\ Client[ui.t] # 0

\* The forwarder waits for its two copy tasks, both blocked in Read.
Copying(t, k) ==
  fpc[t][k] = "wait" /\ \A d \in Dirs : cpc[t][k][d] = "blocked"

C6_SocketsClosedOnce ==
  \A t \in Insts, k \in Conns :
    fpc[t][k] = "done" =>
      /\ lclose[t][k] = 1
      /\ ropen[t][k] => rclose[t][k] = 1

\* A forwarder has ended on the stop signal while it was copying.
C6_Witness ==
  \E t \in Insts, k \in Conns :
    fpc[t][k] = "done" /\ ropen[t][k] /\ lclose[t][k] = 2

\* C7: when every remote dial of a forwarder fails with an error that is not
\* connection-class and no stop signal arrives, the forwarder has made exactly
\* 3 attempts, has waited 1 x baseDelay and then 2 x baseDelay, has emitted an
\* error status, and on its return the client it used has been closed exactly
\* once and the handle is absent.
C7_RetryExhaustion ==
  [][\A t \in Insts, k \in Conns :
       (fpc[t][k] = "rfail3" /\ fpc'[t][k] = "done" /\ "conn" \notin Range(fres[t][k]))
         => /\ fres[t][k] = <<"other", "other", "other">>
            /\ fatt[t][k] = maxRetries - 1
            /\ fdel[t][k] = <<baseDelay, 2 * baseDelay>>
            /\ StatusSet[t] => femit[t][k][Len(femit[t][k])] = "error"
            /\ cclose'[fcl[t][k]] = 1
            /\ Client'[t] = 0]_vars

\* Three remote dials have failed with other errors, no stop signal was raised,
\* and the forwarder is about to close the client.
C7_Witness ==
  \E t \in Insts, k \in Conns :
    /\ fpc[t][k] = "rfail3" /\ fres[t][k] = <<"other", "other", "other">>
    /\ stopChan[t] = "open" /\ StatusSet[t] /\ Client[t] = fcl[t][k]
    /\ "error" \in Range(femit[t][k])

\* C8: a status event with state active is emitted only once both the SSH dial
\* and the remote dial of some accepted connection have succeeded.
C8_ActiveAfterRemoteDial ==
  \A t \in Insts, k \in Conns :
    "active" \in Range(femit[t][k]) => ropen[t][k]

\* A forwarder has emitted active and its remote dial then failed.
C8_Witness ==
  \E t \in Insts, k \in Conns :
    /\ "active" \in Range(femit[t][k]) /\ ~ropen[t][k]
    /\ fpc[t][k] = "rfail" /\ fres[t][k] = <<"conn">>

\* C9: when the SSH dial of a forwarder fails, an error status is emitted, the
\* client handle stays absent, that forwarder returns and releases clientMu
\* while the listener, the accept loop, the health task and the other
\* forwarders stay as they are, and a forwarder that then finds no client
\* dials anew.
C9_SshDialFailure ==
  [][\A t \in Insts, k \in Conns :
       /\ fpc[t][k] \in {"sshfail", "sshfail2"} =>
            /\ Client[t] = 0 /\ Client'[t] = 0
            /\ fpc'[t][k] \in {"sshfail", "sshfail2", "done"}
       /\ (fpc[t][k] = "sshfail2" /\ StatusSet[t]) => "error" \in Range(femit[t][k])
       /\ (fpc[t][k] = "sshfail2" /\ fpc'[t][k] = "done") =>
            /\ clientMu'[t] = 0
            /\ lclose'[t][k] = 1
            /\ UNCHANGED <<Listener, bound, stopChan, acc, hl>>
            /\ \A j \in Conns \ {k} : fpc'[t][j] = fpc[t][j]
       /\ (fpc[t][k] = "lock" /\ fpc'[t][k] # "lock" /\ Client[t] = 0) =>
            fpc'[t][k] = "dial_emit"]_vars

\* The SSH dial of a forwarder has failed and the error status is emitted,
\* while the accept loop runs on an open listener.
C9_Witness ==
  \E t \in Insts, k \in Conns :
    /\ fpc[t][k] = "sshfail2" /\ "error" \in Range(femit[t][k])
    /\ acc[t] = "loop" /\ Listener[t] = 1 /\ bound[t] /\ stopChan[t] = "open"

\* The status events of tunnel t on their way to the reader, oldest first.
Flow(t) ==
  SelectSeq(aggStatus, LAMBDA e : e.id = t)
    \o (IF fhold[t] = NoEv THEN <<>> ELSE <<fhold[t]>>)
    \o statusQ[t]

C11_NoOldAfterNew ==
  [][\A t \in Insts :
       (faninpc[t] = "send" /\ faninpc'[t] = "recv")
         => ~(lastd > t /\ acc[lastd] # "none" /\ registry["a"] = lastd)]_vars

\* An event of the new Tunnel object is delivered while the fan-in task of the
\* old one still holds an event.
C11_Witness ==
  /\ lastd = 2 /\ acc[2] # "none" /\ registry["a"] = 2
  /\ faninpc[1] = "send"

\* A step of a task of tunnel t that calls updateStatus.
Emitting(t) ==
  \/ acc[t] = "emit" /\ acc'[t] = "loop"
  \/ acc[t] = "loop" /\ acc'[t] = "lnil"
  \/ acc[t] = "lnil" /\ acc'[t] = "done"
  \/ ui.pc = "start_err" /\ ui.t = t /\ ui'.pc = "idle"
  \/ \E k \in Conns :
       \/ /\ fpc[t][k] \in {"dial_emit", "sshfail", "sshfail2", "act1", "rfail", "rfail2"}
          /\ fpc'[t][k] # fpc[t][k]
       \/ fpc[t][k] = "estd" /\ ffirst[t][k] /\ fpc'[t][k] # "estd"

\* C12: no status event emitted by a task of a tunnel is discarded: every
\* step that emits one puts it on the tunnel's status queue, from where the
\* fan-in task carries it to the aggregate queue, also while the tunnel is
\* being stopped.
C12_NoStatusDiscarded ==
  [][\A t \in Insts : Emitting(t) => emitN'[t] = emitN[t] + 1]_vars

\* A forwarder is about to emit a status event of a tunnel whose status queue
\* StopTunnel has closed and cleared.
C12_Witness ==
  \E t \in Insts, k \in Conns :
    /\ ~StatusSet[t] /\ statusClosed[t]
    /\ fpc[t][k] \in {"dial_emit", "sshfail", "act1", "rfail", "estd"}

C14_NoSendOnClosed ==
  "status" \in aggClosed => \A t \in Insts : faninpc[t] \notin {"send", "panic", "nil"}

\* A fan-in task has panicked in its send on the closed aggregate queue.
C14_Witness ==
  \E t \in Insts : faninpc[t] = "panic" /\ fhold[t] # NoEv /\ ui.pc = "quit"

\* C15: when two StopTunnel calls for one id (or a StopTunnel and a Cleanup)
\* overlap, the stop signal of the tunnel is raised once: no caller closes a
\* stop channel that is closed already.
C15_OneStop == ui.pc # "panic" /\ ui2.pc # "panic"

\* Both callers are inside the stop of the same Tunnel object.
C15_Witness ==
  /\ ui.pc \in {"stop_lock", "stop_sleep"}
  /\ ui2.pc \in {"stop_lock", "stop_sleep"}
  /\ ui.t = ui2.t /\ acc[ui.t] # "none"

\* C16: StopTunnel(id) for an id that is not in the registry returns without
\* an error and changes nothing: the registry, every Tunnel object, its tasks
\* and queues, and both aggregate queues stay as they are.
C16_StopUnknownNoop ==
  [][(Idle /\ ui'.id # ui.id /\ registry[ui'.id] = 0 /\ ui'.pc # "created")
       => /\ ui'.pc = "idle"
          /\ UNCHANGED <<mgrv, tunv, cliv, stv, logQ, chv, aggv, fanv, acc, hlv, fwv, sockv,
                         extv>>]_vars

\* StopTunnel has returned for the id that is never registered while a
\* started tunnel is registered.
C16_Witness ==
  /\ ui.pc = "idle" /\ ui.id \in NoIds
  /\ registry["a"] # 0 /\ acc[registry["a"]] = "loop"

\* C17: when authentication resolution or binding the listener fails,
\* StartTunnel returns its error: the errorf before the return can put its
\* line on the tunnel's log queue, because the queue has room or a log fan-in
\* task drains it.
C17_StartTunnelReturns ==
  ui.pc = "start_err" =>
    ~(LogSet[ui.t] /\ logQ[ui.t] = LogCap /\ logfan[ui.t] = "none")

\* A failed StartTunnel of a tunnel that was never started has returned: no
\* accept loop, no health task, no log fan-in task, no listener.
C17_Witness ==
  /\ ui.pc = "idle" /\ ui.t = 1 /\ logQ[1] = 1
  /\ acc[1] = "none" /\ hl[1] = "none" /\ logfan[1] = "none"
  /\ Listener[1] = 0 /\ ~bound[1]

\* C19: when the session the health task opens on the shared client fails,
\* the latency is the unknown sentinel (-1) from that step to the end of the
\* tick, and the tick ends by closing and clearing the shared client; a
\* forwarder that then takes the client lock finds no client and dials.
C19_HealthFailure ==
  [][\A t \in Insts :
       /\ (hl[t] = "sess" /\ hl'[t] = "fail") => latency'[t] = -1
       /\ hl[t] = "fail" => latency[t] = -1
       /\ (hl[t] = "fail" /\ hl'[t] = "wait") =>
            /\ Client'[t] = 0
            /\ Client[t] # 0 => cclose'[Client[t]] = cclose[Client[t]] + 1
       /\ \A k \in Conns :
            (fpc[t][k] = "lock" /\ fpc'[t][k] # "lock" /\ Client[t] = 0)
              => fpc'[t][k] = "dial_emit"]_vars

\* The session of the health task has failed on a client that is open and
\* shared, and a forwarder of the tunnel has data to carry on it.
C19_Witness ==
  \E t \in Insts :
    /\ hl[t] = "fail" /\ latency[t] = -1
    /\ ClientOpen(Client[t])
    /\ \E k \in Conns : fcl[t][k] = Client[t]

\* C18: a call of updateMetrics changes the rates, LastBytesIn, LastBytesOut
\* and LastUpdate only when the time elapsed since LastUpdate is strictly
\* positive; then each rate is the bytes counted since the last update divided
\* by the elapsed time and the Last fields take the current counters and time;
\* with zero elapsed time the call changes nothing.
C18_RatesOnlyOnElapsed ==
  [][<<now, elapsed>>' # <<now, elapsed>> =>
       LET e == now' - Metrics.LastUpdate IN
         IF e > 0
           THEN /\ Metrics'.CurrentRateIn = <<Metrics.BytesIn - Metrics.LastBytesIn, e>>
                /\ Metrics'.CurrentRateOut = <<Metrics.BytesOut - Metrics.LastBytesOut, e>>
                /\ Metrics'.LastBytesIn = Metrics.BytesIn
                /\ Metrics'.LastBytesOut = Metrics.BytesOut
                /\ Metrics'.LastUpdate = now'
                /\ Metrics'.BytesIn = Metrics.BytesIn
                /\ Metrics'.BytesOut = Metrics.BytesOut
           ELSE Metrics' = Metrics]_vars

\* The last call found no time elapsed while bytes were waiting to be
\* accounted, after an earlier call had computed rates that are not zero.
C18_Witness ==
  /\ elapsed = 0
  /\ Metrics.BytesIn > Metrics.LastBytesIn
  /\ Metrics.BytesOut > Metrics.LastBytesOut
  /\ Metrics.CurrentRateIn[1] > 0
  /\ Metrics.CurrentRateOut[1] > 0

\* The text of s before its first c (all of s when there is none), and after it.
Before(s, c) == IF Index(s, c) = 0 THEN s ELSE SubSeq(s, 1, Index(s, c) - 1)
After(s, c) == IF Index(s, c) = 0 THEN <<>> ELSE SubSeq(s, Index(s, c) + 1, Len(s))

\* The part of s in which host and port are looked for: after the first "@"
\* up to a second one, or all of s.
Segment(s) == IF Index(s, "@") # 0 THEN Before(After(s, "@"), "@") ELSE s

\* The text between the first ":" of the segment and the next ":".
PortText(s) == Before(After(Segment(s), ":"), ":")

\* A text is numeric when it is a digit string with an optional sign; its
\* number, as a decimal numeral.
Numeric(p) ==
  LET d == IF p # <<>> /\ p[1] \in {"+", "-"} THEN Tail(p) ELSE p
  IN d # <<>> /\ \A i \in 1..Len(d) : d[i] \in Digits

Number(p) ==
  LET d == IF p[1] \in {"+", "-"} THEN Tail(p) ELSE p
  IN IF p[1] = "-" /\ Trim(d) # <<"0">> THEN <<"-">> \o Trim(d) ELSE Trim(d)

\* C20: NewEndpointFromString(s) returns, for every s: as user the text
\* before the first "@" (empty without "@"); as host the text after the first
\* "@" (or all of s) up to a second "@" and then up to its first ":"; as port
\* the number between that ":" and the next ":" when that text is numeric,
\* otherwise 0.
C20_EndpointParsing ==
  endpoint # <<>> =>
    /\ endpoint[1].User = (IF Index(epIn, "@") # 0 THEN Before(epIn, "@") ELSE <<>>)
    /\ endpoint[1].Host = Before(Segment(epIn), ":")
    /\ endpoint[1].Port = (IF Numeric(PortText(epIn)) THEN Number(PortText(epIn))
                           ELSE <<"0">>)

\* The string with two "@" of the tests has been parsed: user "user", host
\* "host", port 0.
C20_Witness ==
  /\ epIn = <<"u", "s", "e", "r", "@", "h", "o", "s", "t", "@", "d", "o", "m", "a", "i", "n", ".", "c", "o", "m">>
  /\ endpoint = <<[Host |-> <<"h", "o", "s", "t">>, Port |-> <<"0">>, User |-> <<"u", "s", "e", "r">>]>>

\* The host string NewEndpoint works on: the first fallback in place of an
\* empty host.
Effective(a) ==
  IF a.host = <<>> /\ a.fallbackHosts # <<>> THEN a.fallbackHosts[1] ELSE a.host

\* C21: NewEndpoint(host, port, fallbacks...) works on the first fallback when
\* host is empty and a fallback is given, and on host otherwise (an empty host
\* stays empty without a fallback); user and host are split out of that string as
\* NewEndpointFromString splits them; a port embedded in the string (what
\* follows the first ":" of the host part, converted as NewEndpointFromString
\* converts it) replaces the port argument, and without a ":" the port argument
\* is kept.
C21_NewEndpoint ==
  endpoint # <<>> =>
    LET s == Effective(epIn) IN
      /\ endpoint[1].User = (IF Index(s, "@") # 0 THEN Before(s, "@") ELSE <<>>)
      /\ endpoint[1].Host = Before(Segment(s), ":")
      /\ endpoint[1].Port = (IF Index(Segment(s), ":") # 0 THEN Atoi(PortText(s))
                             ELSE epIn.port)
      /\ (epIn.host = <<>> /\ epIn.fallbackHosts = <<>>) => endpoint[1].Host = <<>>

\* An empty host with a fallback that holds a user and a port: the endpoint
\* is that of the fallback, and its port has replaced the argument 22.
C21_Witness ==
  /\ epIn = [host |-> <<>>, port |-> <<"2", "2">>, fallbackHosts |-> <<<<"u", "@", "f", ":", "7">>>>]
  /\ endpoint = <<[Host |-> <<"f">>, Port |-> <<"7">>, User |-> <<"u">>]>>

\* The endpoint written host:port, for a host string s that may hold a user
\* ("user@") and a port (":port", which then replaces port).
HostPort(s, port) ==
  [Host |-> Before(Segment(s), ":"),
   Port |-> IF Index(Segment(s), ":") # 0 THEN Atoi(PortText(s)) ELSE port,
   User |-> IF Index(s, "@") # 0 THEN Before(s, "@") ELSE <<>>]

\* The port when 0 stands for "unspecified": 22.
Or22(port) == IF port = <<"0">> THEN <<"2", "2">> ELSE port

Localhost == <<"l", "o", "c", "a", "l", "h", "o", "s", "t">>

InGetMetrics == ui.pc \in {"metrics_lock", "metrics_format", "metrics_unlock"}

\* A step of GetMetrics: one that returns a value, or a step of the caller
\* into, inside or out of the call.
GetMetricsStep ==
  \/ ret' # ret
  \/ ui' # ui /\ (InGetMetrics \/ InGetMetrics')

\* C23: GetMetrics(id) returns "--" when id is not in the registry, and else
\* the string formatted from the current rates and latency of the tunnel,
\* which the metrics lock keeps current until the return; no step of it
\* changes a metrics field, the state of a tunnel or the registry, and its
\* caller holds no lock but the metrics lock.
C23_GetMetrics ==
  /\ [](InGetMetrics => /\ Holds("ui") \subseteq {"Metrics.mu"}
                         /\ ui.t # 0 /\ registry[ui.id] = ui.t)
  /\ [](ui.pc = "metrics_unlock" => ret = GetMetrics_Sprintf(ui.t))
  /\ [][GetMetricsStep =>
          /\ UNCHANGED <<metv, mgrv, tunv, cliv, hlv, acc, fwv, sockv, stv, chv, kpc, kloc>>
          /\ mu'.w = mu.w /\ mu'.r = mu.r
          /\ ui.pc = "idle" /\ ui'.pc = "idle" => ret' = <<"--">> /\ registry[ui'.id] = 0
          /\ ui.pc = "idle" /\ InGetMetrics' => registry[ui'.id] # 0
          /\ ui.pc = "metrics_format" => ret' = GetMetrics_Sprintf(ui.t)]_vars

\* GetMetrics has returned "--" for the id that is never created, after it
\* returned rates of 1.5 B/s out and 0.5 B/s in and a measured latency.
C23_Witness ==
  /\ ui.pc = "idle" /\ ui.id = "b"
  /\ ret = <<"--">>
  /\ Metrics.CurrentRateOut = <<3, 2>> /\ Metrics.CurrentRateIn = <<1, 2>>
  /\ latency[Tk] = 1

\* GetMetrics is about to return the string of rates 1.5 B/s out and 0.5 B/s
\* in and of a measured latency.
C23_Witness_formatted ==
  /\ ui.pc = "metrics_unlock"
  /\ ret = <<"^", 15, "B/s", "v", 5, "B/s", "[", 1, "ms", "]">>

\* Forwarder k of t sends one more status event, of state "error", if the
\* status queue of t is still set (updateStatus sends nothing once StopTunnel
\* has cleared it).
EmitsError(t, k) == StatusSet[t] => femit'[t][k] = Append(femit[t][k], "error")

\* C24: a remote dial that fails with a connection-class error is the last
\* attempt of its forwarder: the forwarder emits the error status, closes
\* and clears the shared client and returns; a dial that is not the last
\* attempt and fails with another error leaves the shared client as it is,
\* and the forwarder sleeps the backoff and goes to its next attempt.
C24_RemoteDialFailure ==
  [][\A t \in Insts, k \in Conns :
       /\ fres'[t][k] = Append(fres[t][k], "conn") =>
            fpc'[t][k] = "rfail" /\ UNCHANGED <<Client, cclose>>
       /\ fpc[t][k] = "rfail" /\ fpc'[t][k] # "rfail" =>
            fpc'[t][k] = "rfail2" /\ EmitsError(t, k) /\ UNCHANGED <<fres, Client, cclose>>
       /\ fpc[t][k] = "rfail2" /\ fpc'[t][k] # "rfail2" =>
            fpc'[t][k] = "rfail3" /\ EmitsError(t, k) /\ UNCHANGED <<fres, Client, cclose>>
       /\ fpc[t][k] = "rfail3" /\ fpc'[t][k] # "rfail3" =>
            /\ fpc'[t][k] = "done"
            /\ Client'[t] = 0
            /\ \A c \in Cls : cclose'[c] = cclose[c] + (IF Client[t] = c THEN 1 ELSE 0)
       /\ fres'[t][k] = Append(fres[t][k], "other") /\ fatt[t][k] < maxRetries - 1 =>
            fpc'[t][k] = "backoff" /\ UNCHANGED <<Client, cclose>>
       /\ fpc[t][k] = "backoff" /\ fpc'[t][k] # "backoff" =>
            /\ fpc'[t][k] = "rloop"
            /\ fatt'[t][k] = fatt[t][k] + 1
            /\ fdel'[t][k] = Append(fdel[t][k], (fatt[t][k] + 1) * baseDelay)
            /\ UNCHANGED <<fres, Client, cclose>>]_vars

\* A forwarder whose first dial failed with another error and whose second,
\* after the backoff, with a connection-class error: it has emitted the error
\* status and is about to close the shared client, which is still set.
C24_Witness ==
  /\ fpc[1][1] = "rfail3"
  /\ fres[1][1] = <<"other", "conn">>
  /\ fatt[1][1] = 1
  /\ fdel[1][1] = <<baseDelay>>
  /\ Client[1] # 0
  /\ femit[1][1][Len(femit[1][1])] = "error"

\* C25: the step of a forwarder that is at its first statement or at the
\* top of its retry loop, before or after a backoff, while the stop signal is
\* raised: it ends the forwarder with one Close of its local connection, and
\* in it no SSH client is dialed, closed or stored, no remote socket is
\* opened and no status event is sent.
C25_ForwarderAbortsOnStop ==
  [][\A t \in Insts, k \in Conns :
       fpc[t][k] \in {"start", "rloop"} /\ stopChan[t] = "closed" /\ fpc'[t][k] # fpc[t][k] =>
         /\ fpc'[t][k] = "done"
         /\ lclose'[t][k] = lclose[t][k] + 1
         /\ UNCHANGED <<stv, nClient, Client, cclose, ropen, rclose>>]_vars

\* The stop signal was raised while a forwarder slept its first backoff: the
\* forwarder is at the top of the retry loop, one attempt behind it.
C25_Witness ==
  /\ fpc[1][1] = "rloop" /\ fatt[1][1] = 1 /\ fres[1][1] = <<"other">>
  /\ stopChan[1] = "closed"
  /\ lclose[1][1] = 0

\* C26 as stated: once a copy task of a forwarder has ended, the forwarder
\* ends (its return closes both sockets), whatever the other copy task and
\* the stop signal do.
C26_CopyEndEndsForwarder ==
  \A k \in Conns : (fpc[1][k] = "wait" /\ Exited(1, k) >= 1) ~> fpc[1][k] = "done"

\* One copy task has ended and the forwarder has counted it; the other is
\* blocked in Read, both sockets are open and no stop signal is raised: the
\* forwarder waits for the second value on done.
C26_Witness ==
  /\ fpc[1][1] = "wait" /\ ffin[1][1] = 1
  /\ cpc[1][1]["upload"] = "exited" /\ cpc[1][1]["download"] = "blocked"
  /\ lclose[1][1] = 0 /\ rclose[1][1] = 0
  /\ stopChan[1] # "closed"

\* The SSH clients that are open: dialed and not closed.
OpenClients == {c \in Cls : c <= nClient /\ cclose[c] = 0}

\* The forwarders between their test t.Client == nil and the end of the
\* dial it leads to.
Dialing == {f \in Forwarders : kpc[f] \in {"dial", "store", "dial_err"}}

\* C27: at most one SSH client of the tunnel is open, and it is the one in
\* t.Client, or the one that the holder of the client lock has just dialed
\* and stores in t.Client with its next statement; at most one forwarder is
\* dialing, and it holds the client lock.
C27_OneOpenClient ==
  /\ Cardinality(OpenClients) <= 1
  /\ \A c \in OpenClients :
       \/ Client[Tk] = c
       \/ \E f \in Forwarders : kpc[f] = "store" /\ kloc[f].client = c /\ mu.w = f
  /\ Cardinality(Dialing) <= 1
  /\ \A f \in Dialing : mu.w = f

\* Two forwarders found t.Client empty; the first has dialed the one client
\* there is and is about to store it, the second waits for the client lock.
C27_Witness ==
  /\ kpc["fwd1"] = "store" /\ kloc["fwd1"].client = 1
  /\ kpc["fwd2"] = "lock"
  /\ nClient = 1 /\ Client[Tk] = 0

\* The second forwarder has taken the lock after the first one stored its
\* client: it finds t.Client set and uses that client.
C27_Witness_reuse ==
  /\ kpc["fwd1"] \in {"rloop", "copy"}
  /\ kpc["fwd2"] = "unlock" /\ kloc["fwd2"].client = 1
  /\ nClient = 1 /\ Client[Tk] = 1

\* C28: no task holds the client lock and the metrics lock together: not the
\* health task, not a forwarder (whose last part stands for its copy tasks),
\* not the caller of Stop and GetMetrics.  (The accept loop takes no lock.)
C28_LocksNeverNested ==
  \A x \in Forwarders \cup {"health", "ui"} : Cardinality(Holds(x)) <= 1

\* The health task has released the metrics lock after a failed session and
\* holds the client lock to close the client, while a forwarder that copies
\* holds the metrics lock.
C28_Witness ==
  /\ kpc["health"] = "fail_close" /\ Holds("health") = {"clientMu"}
  /\ kpc["fwd1"] = "count" /\ Holds("fwd1") = {"Metrics.mu"}

\* The next statement of task x is a blocking call to the network:
\* client.NewSession(), session.Close() or ssh.Dial().
NetworkCall(x) ==
  IF x = "health"
    THEN kpc[x] \in {"session", "close"}
    ELSE kpc[x] \in {"healthy_session", "healthy_close", "dial"}

\* C29 as stated: a task whose next statement is an SSH dial, a session open
\* or a session close holds neither the client lock nor the metrics lock.
C29_NoLockAcrossNetwork ==
  \A x \in Forwarders \cup {"health"} : NetworkCall(x) => Holds(x) = {}

\* A forwarder is about to call ssh.Dial with the client lock held, while
\* the second forwarder waits for that lock.
C29_Witness ==
  /\ kpc["fwd1"] = "dial" /\ Holds("fwd1") = {"clientMu"}
  /\ kpc["fwd2"] \in {"check", "lock"}

\* The health task is about to call session.Close() with the metrics lock
\* held, while the caller of GetMetrics waits for that lock.
C29_Witness_health ==
  /\ kpc["health"] = "close" /\ Holds("health") = {"Metrics.mu"}
  /\ ui.pc = "metrics_lock"

\* The next statement of task x reads t.Client, or writes it.
ClientRead(x) ==
  IF x = "health"
    THEN kpc[x] \in {"look", "read"}
    ELSE x # "ui" /\ kpc[x] \in {"check_read", "healthy_read", "look"}

ClientWrite(x) ==
  IF x = "ui"
    THEN ui.pc = "stop_close"
    ELSE IF x = "health"
      THEN kpc[x] = "fail_close"
      ELSE kpc[x] \in {"unhealthy_close", "store", "dial_err", "rfail_close"}

\* C30 as stated: a task whose next statement reads t.Client holds the client
\* lock, shared or exclusive, and one whose next statement writes it holds
\* the lock exclusively: the health task, the forwarders and Stop.
C30_ClientUnderLock ==
  \A x \in Forwarders \cup {"health", "ui"} :
    /\ ClientRead(x) => "clientMu" \in Holds(x)
    /\ ClientWrite(x) => mu.w = x

\* The health task is about to test t.Client == nil without the client lock,
\* while a forwarder holds that lock and is about to store a new client.
C30_Witness ==
  /\ kpc["health"] = "look" /\ Holds("health") = {}
  /\ kpc["fwd1"] = "store" /\ mu.w = "fwd1"

\* Apart from the first test of the health task, every read of t.Client is
\* under the client lock and every write under the exclusive lock.
C30_OthersUnderLock ==
  \A x \in Forwarders \cup {"health", "ui"} :
    /\ ClientRead(x) /\ ~(x = "health" /\ kpc[x] = "look") => "clientMu" \in Holds(x)
    /\ ClientWrite(x) => mu.w = x

\* Copy task x writes back the counter of direction dir.
Counts(x, dir) == kpc[x] = dir \o "_store" /\ kpc'[x] = "unlock"

\* C31: BytesIn and BytesOut never decrease; the step with which a copy task
\* counts a successful write of n bytes adds exactly n to BytesOut (upload)
\* or to BytesIn (download), whatever the copy tasks of the other connection
\* do meanwhile, and leaves the other counter alone; a failed write, and
\* every other step, changes neither counter.
C31_CountersExact ==
  [][/\ Metrics'.BytesOut >= Metrics.BytesOut
     /\ Metrics'.BytesIn >= Metrics.BytesIn
     /\ \A x \in Forwarders :
          /\ Counts(x, "out") => /\ Metrics'.BytesOut = Metrics.BytesOut + kloc[x].n
                                  /\ Metrics'.BytesIn = Metrics.BytesIn
          /\ Counts(x, "in") => /\ Metrics'.BytesIn = Metrics.BytesIn + kloc[x].n
                                 /\ Metrics'.BytesOut = Metrics.BytesOut
     /\ (\A x \in Forwarders : ~Counts(x, "out") /\ ~Counts(x, "in")) =>
          /\ Metrics'.BytesOut = Metrics.BytesOut
          /\ Metrics'.BytesIn = Metrics.BytesIn]_vars

\* A copy task holds the metrics lock and is about to add the 2 bytes it
\* wrote to BytesOut, which a copy task of the other connection has raised
\* to 1; that task has written again and waits for the lock.
C31_Witness ==
  /\ kpc["fwd1"] = "out_store" /\ kloc["fwd1"].n = 2 /\ kloc["fwd1"].v = 1
  /\ mu.m = "fwd1"
  /\ kpc["fwd2"] = "in_lock"
  /\ Metrics.BytesOut = 1

\* C32 as stated: after every tick the health task calls updateMetrics,
\* whether t.Client is set or not.
C32_EveryTickUpdates ==
  [][kpc["health"] = "look" /\ kpc'["health"] # "look" => kpc'["health"] = "update"]_vars

\* The ticker has fired in a started tunnel that has no SSH client (no
\* connection was accepted yet): the health task is at its test of t.Client.
C32_Witness ==
  /\ kpc["health"] = "look" /\ hl[Tk] = "wait"
  /\ Client[Tk] = 0 /\ nClient = 0
  /\ stopChan[Tk] = "open"

\* C33: the step with which a copy task ends (end-of-stream, an error of
\* the network, the error of a closed socket) sends no status event, and
\* neither does a step of its forwarder from then on (it counts the ends,
\* then returns, and its locals are gone); none of these steps closes or
\* clears the SSH client.
C33_CopyEndIsLocal ==
  [][\A t \in Insts, k \in Conns :
       /\ (\E d \in Dirs : cpc[t][k][d] # "exited" /\ cpc'[t][k][d] = "exited")
            => UNCHANGED <<femit, Client, cclose>>
       /\ fpc[t][k] = "wait" /\ (fpc'[t][k] # "wait" \/ ffin'[t][k] # ffin[t][k])
            => femit'[t][k] \in {femit[t][k], <<>>} /\ UNCHANGED <<Client, cclose>>]_vars

\* A later connection of the tunnel uses the client that the first connection
\* dialed: that forwarder ended with the end of its copy tasks, the client was
\* never closed, and the forwarder of the later connection has taken it from
\* t.Client without dialing.
C33_Witness ==
  /\ fpc[1][1] = "rloop" /\ ~ffirst[1][1] /\ fcl[1][1] = 1
  /\ Client[1] = 1 /\ nClient = 1 /\ cclose[1] = 0
  /\ stopChan[1] = "open"

\* The forwarder that holds the client lock of tunnel t waits for room on the
\* tunnel's log queue, which the log fan-in cannot make: the manager's queue is
\* full and the listen command's message waits for Update.
LogStuck(t) ==
  /\ \E k \in Conns : clientMu[t] = k /\ fpc[t][k] \in {"dial_emit", "sshfail"}
  /\ LogSet[t] /\ logQ[t] = LogCap
  /\ logfan[t] = "send" /\ aggLog = AggLogCap
  /\ "log" \in ui.got

\* C34: every call of StopTunnel returns, also when a forwarder holds the
\* client lock while it waits to put a log line on a full queue and the caller
\* of StopTunnel is the task that drains the manager's queues.
C34_StopTunnelReturns == ui.pc \in {"stop_lock", "stop_sleep"} ~> ui.pc = "idle"

\* StopTunnel waits for the client lock, whose holder waits for the caller.
C34_Witness == ui.pc = "stop_lock" /\ LogStuck(ui.t)

\* C35: every call of StartTunnel returns, whatever the number of calls that
\* failed before it: the log line of a failing call never blocks the caller.
C35_StartTunnelReturns == ui.pc = "start_err" ~> ui.pc = "idle"

\* A failing StartTunnel is at its errorf with the tunnel's log queue full of
\* the lines of earlier failed calls, and no log fan-in task was ever started.
C35_Witness ==
  /\ ui.pc = "start_err"
  /\ LogSet[ui.t] /\ logQ[ui.t] = LogCap /\ logfan[ui.t] = "none"
  /\ acc[ui.t] = "none"

\* Task x closes and clears the shared client after it saw a session or a
\* remote dial fail on the client it had read.
ClosesAfterFailure(x) ==
  /\ kpc[x] \in {"fail_close", "unhealthy_close", "rfail_close"}
  /\ kpc'[x] # kpc[x]

\* C36: a task that closes the shared client after it observed a failure
\* closes the client object it observed, never one stored since.
C36_ClosesObserved ==
  [][\A x \in Forwarders \cup {"health"} :
       ClosesAfterFailure(x) /\ Client[Tk] # 0 => Client[Tk] = kloc[x].client]_vars

\* The health task has closed the client on which its session failed.
C36_Witness ==
  /\ kpc["health"] = "fail_unlock"
  /\ Client[Tk] = 0 /\ nClient = 1 /\ cclose[1] = 1

\* C37: no task sends on a queue of the tunnel after StopTunnel has closed
\* it, however the test of the queue, the send and the close interleave.
C37_NoSendAfterClose ==
  [][\A t \in Insts : acc[t] = "stop_send" /\ acc'[t] # "stop_send" => ~logClosed[t]]_vars

\* The accept loop has panicked in the send of its logf on the queue that
\* StopTunnel closed after the test, and StopTunnel has returned.
C37_Witness ==
  \E t \in Insts : acc[t] = "panic" /\ logClosed[t] /\ ~LogSet[t] /\ ui.pc = "idle"

\* StopTunnel has returned for Tunnel object t after raising its stop signal.
Stopped(t) == stopChan[t] = "closed" /\ statusClosed[t]

\* C38: once the stop signal of a tunnel is raised no SSH client is dialed or
\* stored in it, and once StopTunnel has returned the tunnel holds no open
\* client.
C38_NoClientAfterStop ==
  [][\A t \in Insts :
       /\ stopChan[t] = "closed" => nClient' = nClient /\ Client'[t] \in {Client[t], 0}
       /\ Stopped(t)' => ~ClientOpen(Client'[t])]_vars

\* StopTunnel has returned and the tunnel holds an open client, dialed and
\* stored after Stop had cleared the field.
C38_Witness ==
  \E t \in Insts :
    /\ Stopped(t) /\ ui.pc = "idle" /\ registry["a"] = 0
    /\ ClientOpen(Client[t])

\* The accept loop of Tunnel object t is running.
Running(t) == acc[t] \in {"init", "emit", "loop"}

\* C39: a StartTunnel that fails on the handle of a tunnel that is running
\* leaves the running instance as it is: the tunnel's listener reference is
\* unchanged, so that the accept loop keeps accepting.
C39_FailedStartKeepsListener ==
  [][\A t \in Insts :
       ui.pc = "created" /\ ui.t = t /\ Running(t) /\ ui'.pc = "start_err"
         => Listener'[t] = Listener[t]]_vars

\* The accept loop of a tunnel that was not stopped has ended on a nil
\* listener while the listener bound by the first StartTunnel is still open.
C39_Witness ==
  \E t \in Insts :
    /\ acc[t] = "lnil" /\ Listener[t] = 0 /\ bound[t]
    /\ stopChan[t] = "open" /\ registry["a"] = t

\* Forwarder g has an established connection and copies.
Established(g) == kpc[g] \in {"copy", "count", "count_unlock"}

\* C40: a forwarder whose remote dial failed never closes the shared client
\* while another forwarder copies on a connection made through that client
\* (the only client dialed so far).
C40_DialFailureSparesOthers ==
  [][\A f \in Forwarders :
       /\ kpc[f] = "rfail_close" /\ kpc'[f] = "rfail_unlock"
       /\ nClient = 1 /\ ClientOpen(Client[Tk])
       => \A g \in Forwarders \ {f} : ~Established(g)]_vars

\* A forwarder has closed the only client after its remote dial failed, and
\* the other forwarder is copying on a connection made through that client.
C40_Witness ==
  \E f \in Forwarders :
    /\ kpc[f] = "rfail_unlock" /\ nClient = 1 /\ cclose[1] = 1 /\ Client[Tk] = 0
    /\ \E g \in Forwarders \ {f} : Established(g)

====
